---- MODULE Spec2Model ----
(***************************************************************************)
(* Model of the chatbot backend: the in-memory session/message store       *)
(* (models/chatModel.js), the conversation service and the input           *)
(* validators (services/chatService.js), the REST and socket adapters      *)
(* (controllers/chatController.js, socket/chatSocket.js) and the custom    *)
(* fixed-window rate limiters (utils/rateLimiter.js).                      *)
(*                                                                         *)
(* Strings are sequences of one-character tokens, so that trimming,        *)
(* control-character stripping and HTML escaping are computed, not         *)
(* assumed.  Values that are not strings are one-element sequences holding *)
(* a tag that is no character.                                             *)
(***************************************************************************)
EXTENDS Integers, Sequences, FiniteSets, TLC

----------------------------------------------------------------------------
(* Bounds of the model                                                     *)

MaxClock == 1          \* the clock (ms) runs over 0..MaxClock
MaxReqs == 1           \* processMessage invocations per behaviour
MaxRnd == 3            \* Math.random() is sampled from 0..MaxRnd
MaxHist == 11          \* longest pre-existing history in SpecContext
MaxMsgs == 2           \* messages per session in SpecStore
MaxLimTicks == 4       \* half seconds that pass in SpecLimiter
MaxLimReqs == 4        \* keyed requests that reach a limiter in SpecLimiter
MaxSockets == 2        \* connections opened in SpecSocket
MaxStr == 2            \* length of the enumerated input strings

----------------------------------------------------------------------------
(* JavaScript values                                                       *)

Undefined == <<"undefined">>
Null == <<"null">>
NotAString == <<"number">>
NonStrings == {Undefined, Null, NotAString}

IsString(v) == v \notin NonStrings

\* !v for the values of the model: undefined, null and "" are falsy
Falsy(v) == v = Undefined \/ v = Null \/ v = <<>>

\* Values of slots that hold a number or an object: null, undefined, a number
JsNull == [type |-> "null"]
JsUndefined == [type |-> "undefined"]
JsNum(n) == [type |-> "number", value |-> n]

\* the truth value JavaScript gives a null, an undefined or a number
Truthy(v) == v.type = "number" /\ v.value # 0

Min(a, b) == IF a < b THEN a ELSE b
Max(a, b) == IF a > b THEN a ELSE b

\* Array.prototype.slice(start) with one argument
JsSlice(arr, start) ==
  LET n == Len(arr)
      from == IF start < 0 THEN Max(n + start, 0) ELSE Min(start, n)
  IN  SubSeq(arr, from + 1, n)

----------------------------------------------------------------------------
(* Characters                                                              *)

SPACE == " "
TAB == "\\t"           \* U+0009: white space and control character
CTRL == "\\x01"        \* U+0001: control character, no white space

WhiteSpace == {SPACE, TAB}
ControlChars == {TAB, CTRL}

\* String.prototype.trim
RECURSIVE TrimLeft(_)
TrimLeft(s) ==
  IF s # <<>> /\ Head(s) \in WhiteSpace THEN TrimLeft(Tail(s)) ELSE s

RECURSIVE TrimRight(_)
TrimRight(s) ==
  IF s # <<>> /\ s[Len(s)] \in WhiteSpace
  THEN TrimRight(SubSeq(s, 1, Len(s) - 1)) ELSE s

Trim(s) == TrimRight(TrimLeft(s))

\* String.prototype.replace(/[set]/g, '')
RECURSIVE RemoveChars(_, _)
RemoveChars(s, set) ==
  IF s = <<>> THEN <<>>
  ELSE IF Head(s) \in set THEN RemoveChars(Tail(s), set)
       ELSE <<Head(s)>> \o RemoveChars(Tail(s), set)

\* String.prototype.replace(/c/g, rep)
RECURSIVE ReplaceChar(_, _, _)
ReplaceChar(s, c, rep) ==
  IF s = <<>> THEN <<>>
  ELSE (IF Head(s) = c THEN rep ELSE <<Head(s)>>)
       \o ReplaceChar(Tail(s), c, rep)

sanitizeString(input) ==
  IF ~IsString(input) THEN <<>>
  ELSE LET t0 == RemoveChars(Trim(input), ControlChars)
           t1 == ReplaceChar(t0, "&", <<"&", "a", "m", "p", ";">>)
           t2 == ReplaceChar(t1, "<", <<"&", "l", "t", ";">>)
           t3 == ReplaceChar(t2, ">", <<"&", "g", "t", ";">>)
           t4 == ReplaceChar(t3, "\"", <<"&", "q", "u", "o", "t", ";">>)
           t5 == ReplaceChar(t4, "'", <<"&", "#", "x", "2", "7", ";">>)
       IN  ReplaceChar(t5, "/", <<"&", "#", "x", "2", "F", ";">>)

----------------------------------------------------------------------------
(* Input validators                                                        *)

\* process.env.MAX_MESSAGE_LENGTH of the modelled deployment
EnvMaxMessageLength == 5

\* parseInt(process.env.MAX_MESSAGE_LENGTH) || 4000
maxLength == IF EnvMaxMessageLength # 0 THEN EnvMaxMessageLength ELSE 4000

ErrEmptyMessage == "El mensaje no puede estar vacio"
ErrMessageType == "El mensaje debe ser una cadena de texto"
ErrMessageTooLong == "El mensaje no puede exceder maxLength caracteres"
ErrMessageOnlyInvalid == "El mensaje contiene solo caracteres no validos"

\* a validator that already refuses a message of the maximum length
validateMessage_offByOne(message) ==
  IF Falsy(message)
  THEN [isValid |-> FALSE, sanitizedMessage |-> <<>>,
        errors |-> <<ErrEmptyMessage>>]
  ELSE IF ~IsString(message)
  THEN [isValid |-> FALSE, sanitizedMessage |-> <<>>,
        errors |-> <<ErrMessageType>>]
  ELSE IF Len(Trim(message)) < 1
  THEN [isValid |-> FALSE, sanitizedMessage |-> <<>>,
        errors |-> <<ErrEmptyMessage>>]
  ELSE IF Len(message) >= maxLength
  THEN [isValid |-> FALSE, sanitizedMessage |-> <<>>,
        errors |-> <<ErrMessageTooLong>>]
  ELSE IF Len(sanitizeString(message)) = 0
  THEN [isValid |-> FALSE, sanitizedMessage |-> sanitizeString(message),
        errors |-> <<ErrMessageOnlyInvalid>>]
  ELSE [isValid |-> TRUE, sanitizedMessage |-> sanitizeString(message),
        errors |-> <<>>]

validateMessage(message) ==
  IF Falsy(message)
  THEN [isValid |-> FALSE, sanitizedMessage |-> <<>>,
        errors |-> <<ErrEmptyMessage>>]
  ELSE IF ~IsString(message)
  THEN [isValid |-> FALSE, sanitizedMessage |-> <<>>,
        errors |-> <<ErrMessageType>>]
  ELSE IF Len(Trim(message)) < 1
  THEN [isValid |-> FALSE, sanitizedMessage |-> <<>>,
        errors |-> <<ErrEmptyMessage>>]
  ELSE IF Len(message) > maxLength
  THEN [isValid |-> FALSE, sanitizedMessage |-> <<>>,
        errors |-> <<ErrMessageTooLong>>]
  ELSE IF Len(sanitizeString(message)) = 0
  THEN [isValid |-> FALSE, sanitizedMessage |-> sanitizeString(message),
        errors |-> <<ErrMessageOnlyInvalid>>]
  ELSE [isValid |-> TRUE, sanitizedMessage |-> sanitizeString(message),
        errors |-> <<>>]

\* a validator that lets one character too many through
validateSessionId_tooLong(sessionId) ==
  IF Falsy(sessionId) \/ ~IsString(sessionId)
  THEN [isValid |-> FALSE, sanitizedSessionId |-> <<>>,
        errors |-> <<"El sessionId es requerido">>]
  ELSE IF Len(sessionId) > 101
          \/ \E i \in 1..Len(sessionId) :
               sessionId[i] \notin {"a", "s", "Z", "1", "2", "_", "-"}
  THEN [isValid |-> FALSE, sanitizedSessionId |-> <<>>,
        errors |-> <<"El sessionId debe tener entre 1 y 100 caracteres">>]
  ELSE [isValid |-> TRUE, sanitizedSessionId |-> sessionId,
        errors |-> <<>>]

\* the characters matched by [a-zA-Z0-9_-]
SessionIdChars == {"a", "s", "Z", "1", "2", "_", "-"}

ErrSessionIdRequired == "El sessionId es requerido"
ErrSessionIdType == "El sessionId debe ser una cadena de texto"
ErrSessionIdLength == "El sessionId debe tener entre 1 y 100 caracteres"
ErrSessionIdFormat == "El sessionId solo puede contener letras, numeros, guiones y guiones bajos"

validateSessionId(sessionId) ==
  IF Falsy(sessionId)
  THEN [isValid |-> FALSE, sanitizedSessionId |-> <<>>,
        errors |-> <<ErrSessionIdRequired>>]
  ELSE IF ~IsString(sessionId)
  THEN [isValid |-> FALSE, sanitizedSessionId |-> <<>>,
        errors |-> <<ErrSessionIdType>>]
  ELSE IF Len(sessionId) < 1 \/ Len(sessionId) > 100
  THEN [isValid |-> FALSE, sanitizedSessionId |-> <<>>,
        errors |-> <<ErrSessionIdLength>>]
  ELSE IF \E i \in 1..Len(sessionId) : sessionId[i] \notin SessionIdChars
  THEN [isValid |-> FALSE, sanitizedSessionId |-> <<>>,
        errors |-> <<ErrSessionIdFormat>>]
  ELSE [isValid |-> TRUE, sanitizedSessionId |-> sessionId,
        errors |-> <<>>]

----------------------------------------------------------------------------
(* ChatModel: the in-memory store                                          *)
(*   ss : the sessions Map, a function from session id to session         *)
(*   ms : the messages Map, a function from message id to message         *)

EmptyMap == [k \in {} |-> k]

\* Map.prototype.set
MapSet(m, k, v) == [x \in DOMAIN m \cup {k} |-> IF x = k THEN v ELSE m[x]]

\* Map.prototype.delete
MapDelete(m, k) == [x \in DOMAIN m \ {k} |-> m[x]]

\* metadata = {} and { error: true, originalError }
NoMetadata == [error |-> FALSE, originalError |-> <<>>]
ErrorMetadata(text) == [error |-> TRUE, originalError |-> text]

EmptyContext == "{}"

\* Date.now().toString(36) + Math.random().toString(36).substr(2)
generateId(t, rnd) == <<t, rnd>>

getSession(ss, sessionId) ==
  IF sessionId \in DOMAIN ss THEN ss[sessionId] ELSE JsNull

\* a store that puts the new message first (unshift for push)
addMessageToSession_unshift(ss, sessionId, message, t) ==
  IF sessionId \in DOMAIN ss
  THEN [ss EXCEPT ![sessionId].messages = <<message>> \o @,
                  ![sessionId].lastActivity = t]
  ELSE ss

addMessageToSession(ss, sessionId, message, t) ==
  IF sessionId \in DOMAIN ss
  THEN [ss EXCEPT ![sessionId].messages = Append(@, message),
                  ![sessionId].lastActivity = t]
  ELSE ss

\* a store whose createMessage opens the session it is given
createMessage_createsSession(ss, ms, sessionId, role, content, metadata, t, rnd) ==
  LET message == [id |-> generateId(t, rnd), sessionId |-> sessionId,
                  role |-> role, content |-> content, timestamp |-> t,
                  metadata |-> metadata]
      opened == IF sessionId \in DOMAIN ss THEN ss
                ELSE MapSet(ss, sessionId,
                            [sessionId |-> sessionId, createdAt |-> t,
                             lastActivity |-> t, messages |-> <<>>,
                             context |-> EmptyContext])
  IN  [sessions |-> addMessageToSession(opened, sessionId, message, t),
       messages |-> MapSet(ms, message.id, message),
       message |-> message]

createMessage(ss, ms, sessionId, role, content, metadata, t, rnd) ==
  LET message == [id |-> generateId(t, rnd), sessionId |-> sessionId,
                  role |-> role, content |-> content, timestamp |-> t,
                  metadata |-> metadata]
  IN  [sessions |-> addMessageToSession(ss, sessionId, message, t),
       messages |-> MapSet(ms, message.id, message),
       message |-> message]

\* a store that returns the first `limit` messages (slice(0, limit))
getSessionMessages_first(ss, sessionId, limit) ==
  IF sessionId \notin DOMAIN ss THEN <<>>
  ELSE IF Truthy(limit)
       THEN SubSeq(ss[sessionId].messages, 1,
                   Min(Max(limit.value, 0), Len(ss[sessionId].messages)))
       ELSE ss[sessionId].messages

getSessionMessages(ss, sessionId, limit) ==
  IF sessionId \notin DOMAIN ss THEN <<>>
  ELSE IF Truthy(limit)
       THEN JsSlice(ss[sessionId].messages, -limit.value)
       ELSE ss[sessionId].messages

\* a store that builds a new session whether or not one exists
createOrUpdateSession_reset(ss, sessionId, context, t) ==
  LET session == [sessionId |-> sessionId, createdAt |-> t,
                  lastActivity |-> t, messages |-> <<>>,
                  context |-> context]
  IN  [sessions |-> MapSet(ss, sessionId, session), session |-> session]

createOrUpdateSession(ss, sessionId, context, t) ==
  IF sessionId \in DOMAIN ss
  THEN LET upd == [ss EXCEPT ![sessionId].lastActivity = t]
       IN  [sessions |-> upd, session |-> upd[sessionId]]
  ELSE LET session == [sessionId |-> sessionId, createdAt |-> t,
                       lastActivity |-> t, messages |-> <<>>,
                       context |-> context]
       IN  [sessions |-> MapSet(ss, sessionId, session), session |-> session]

RECURSIVE DeleteAll(_, _)
DeleteAll(ms, msgs) ==
  IF msgs = <<>> THEN ms
  ELSE DeleteAll(MapDelete(ms, Head(msgs).id), Tail(msgs))

\* a store that drops the messages but keeps the session entry
deleteSession_keepsEntry(ss, ms, sessionId) ==
  IF sessionId \notin DOMAIN ss
  THEN [sessions |-> ss, messages |-> ms, result |-> FALSE]
  ELSE [sessions |-> [ss EXCEPT ![sessionId].messages = <<>>],
        messages |-> DeleteAll(ms, ss[sessionId].messages),
        result |-> TRUE]

deleteSession(ss, ms, sessionId) ==
  IF sessionId \notin DOMAIN ss
  THEN [sessions |-> ss, messages |-> ms, result |-> FALSE]
  ELSE [sessions |-> MapDelete(ss, sessionId),
        messages |-> DeleteAll(ms, ss[sessionId].messages),
        result |-> TRUE]

getStats(ss, ms) ==
  [totalSessions |-> Cardinality(DOMAIN ss),
   totalMessages |-> Cardinality(DOMAIN ms)]

----------------------------------------------------------------------------
(* ChatService: context assembly and the LLM call                          *)

ContextWindow == 10

SystemPrompt == <<"Eres un asistente util y amigable. Responde de manera clara y concisa.">>
ApologyText == <<"Lo siento, ocurrio un error al procesar tu mensaje. Por favor, intentalo de nuevo.">>
ErrRequired == <<"sessionId y userMessage son requeridos">>
ErrNoClient == <<"Cliente OpenAI no disponible">>
ErrNoApiKey == <<"OPENAI_API_KEY no esta definida en las variables de entorno">>
ErrNoContent == <<"No se recibio respuesta de OpenAI">>
ErrUpstream == <<"Request timed out.">>

\* a context assembly that sends the system prompt and the last message only
prepareMessagesForOpenAI_onlyLast(sessionMessages) ==
  IF sessionMessages = <<>>
  THEN <<[role |-> "system", content |-> SystemPrompt]>>
  ELSE <<[role |-> "system", content |-> SystemPrompt],
         [role |-> sessionMessages[Len(sessionMessages)].role,
          content |-> sessionMessages[Len(sessionMessages)].content]>>

RECURSIVE prepareMessagesForOpenAI(_)
prepareMessagesForOpenAI(sessionMessages) ==
  IF sessionMessages = <<>>
  THEN <<[role |-> "system", content |-> SystemPrompt]>>
  ELSE Append(prepareMessagesForOpenAI(
                SubSeq(sessionMessages, 1, Len(sessionMessages) - 1)),
              [role |-> sessionMessages[Len(sessionMessages)].role,
               content |-> sessionMessages[Len(sessionMessages)].content])

\* What the environment does with one call: the client cannot be built
\* (openaiClient.getClient throws for want of an API key), getClient yields
\* null, the request throws, or a response arrives whose first choice has
\* the given content.
LlmOutcome(kind, content) == [kind |-> kind, content |-> content]

\* callOpenAI: [ok |-> TRUE, value |-> reply] or [ok |-> FALSE, value |-> error.message]
callOpenAI(outcome) ==
  IF outcome.kind = "noApiKey" THEN [ok |-> FALSE, value |-> ErrNoApiKey]
  ELSE IF outcome.kind = "nullClient" THEN [ok |-> FALSE, value |-> ErrNoClient]
  ELSE IF outcome.kind = "throws" THEN [ok |-> FALSE, value |-> ErrUpstream]
  ELSE IF Falsy(outcome.content) THEN [ok |-> FALSE, value |-> ErrNoContent]
  ELSE [ok |-> TRUE, value |-> Trim(outcome.content)]

\* the object processMessage resolves to
SuccessResult(botResponse, sessionId, botMsg) ==
  [success |-> TRUE, message |-> botResponse, sessionId |-> sessionId,
   messageId |-> botMsg.id, timestamp |-> botMsg.timestamp, error |-> Undefined]

FailureResult(sessionId, errorMsg, errorText) ==
  [success |-> FALSE, message |-> ApologyText, sessionId |-> sessionId,
   messageId |-> errorMsg.id, timestamp |-> errorMsg.timestamp,
   error |-> errorText]

\* a catch block that stores the apology without the error marker
processMessageCatch_noMarker(ss, ms, sessionId, errorText, t, rnd) ==
  LET cm == createMessage(ss, ms, sessionId, "assistant", ApologyText,
                          NoMetadata, t, rnd)
  IN  [sessions |-> cm.sessions, messages |-> cm.messages,
       result |-> FailureResult(sessionId, cm.message, errorText)]

\* the catch block of processMessage
processMessageCatch(ss, ms, sessionId, errorText, t, rnd) ==
  LET cm == createMessage(ss, ms, sessionId, "assistant", ApologyText,
                          ErrorMetadata(errorText), t, rnd)
  IN  [sessions |-> cm.sessions, messages |-> cm.messages,
       result |-> FailureResult(sessionId, cm.message, errorText)]

\* processMessage from its entry to the await of callOpenAI
\* a service that assembles the context before it stores the user message
processMessageBegin_contextFirst(ss, ms, sessionId, userMessage, t, rnd) ==
  IF Falsy(sessionId) \/ Falsy(userMessage)
  THEN [thrown |-> TRUE, llmInput |-> <<>>, userMsg |-> JsNull]
       @@ processMessageCatch(ss, ms, sessionId, ErrRequired, t, rnd)
  ELSE LET cs == createOrUpdateSession(ss, sessionId, EmptyContext, t)
           sessionMessages == getSessionMessages(cs.sessions, sessionId,
                                                 JsNum(ContextWindow))
           cm == createMessage(cs.sessions, ms, sessionId, "user",
                               userMessage, NoMetadata, t, rnd)
       IN  [thrown |-> FALSE, sessions |-> cm.sessions,
            messages |-> cm.messages, result |-> JsNull,
            llmInput |-> prepareMessagesForOpenAI(sessionMessages),
            userMsg |-> cm.message]

processMessageBegin(ss, ms, sessionId, userMessage, t, rnd) ==
  IF Falsy(sessionId) \/ Falsy(userMessage)
  THEN [thrown |-> TRUE, llmInput |-> <<>>, userMsg |-> JsNull]
       @@ processMessageCatch(ss, ms, sessionId, ErrRequired, t, rnd)
  ELSE LET cs == createOrUpdateSession(ss, sessionId, EmptyContext, t)
           cm == createMessage(cs.sessions, ms, sessionId, "user",
                               userMessage, NoMetadata, t, rnd)
           sessionMessages == getSessionMessages(cm.sessions, sessionId,
                                                 JsNum(ContextWindow))
       IN  [thrown |-> FALSE, sessions |-> cm.sessions,
            messages |-> cm.messages, result |-> JsNull,
            llmInput |-> prepareMessagesForOpenAI(sessionMessages),
            userMsg |-> cm.message]

\* processMessage from the return of callOpenAI to its own return
processMessageEnd(ss, ms, sessionId, outcome, t, rnd) ==
  LET r == callOpenAI(outcome)
  IN  IF r.ok
      THEN LET cm == createMessage(ss, ms, sessionId, "assistant", r.value,
                                   NoMetadata, t, rnd)
           IN  [sessions |-> cm.sessions, messages |-> cm.messages,
                result |-> SuccessResult(r.value, sessionId, cm.message)]
      ELSE processMessageCatch(ss, ms, sessionId, r.value, t, rnd)

\* a history that answers for a session that does not exist
getSessionHistory_noNotFound(ss, sessionId, limit) ==
  LET msgs == getSessionMessages(ss, sessionId, limit)
  IN  [success |-> TRUE, sessionId |-> sessionId,
       messages |-> [i \in 1..Len(msgs) |->
                       [id |-> msgs[i].id, role |-> msgs[i].role,
                        content |-> msgs[i].content,
                        timestamp |-> msgs[i].timestamp]],
       totalMessages |-> Len(msgs)]

getSessionHistory(ss, sessionId, limit) ==
  IF getSession(ss, sessionId) = JsNull
  THEN [success |-> FALSE, message |-> "Sesion no encontrada",
        messages |-> <<>>]
  ELSE LET msgs == getSessionMessages(ss, sessionId, limit)
       IN  [success |-> TRUE, sessionId |-> sessionId,
            messages |-> [i \in 1..Len(msgs) |->
                            [id |-> msgs[i].id, role |-> msgs[i].role,
                             content |-> msgs[i].content,
                             timestamp |-> msgs[i].timestamp]],
            totalMessages |-> Len(msgs)]

clearSession(ss, ms, sessionId) ==
  LET d == deleteSession(ss, ms, sessionId)
  IN  [sessions |-> d.sessions, messages |-> d.messages,
       result |-> IF d.result
                  THEN [success |-> TRUE,
                        message |-> "Sesion limpiada correctamente"]
                  ELSE [success |-> FALSE,
                        message |-> "Sesion no encontrada"]]

----------------------------------------------------------------------------
(* utils/rateLimiter.js: the fixed-window limiters                         *)

\* Math.ceil(a / b) for a >= 0
Ceil(a, b) == (a + b - 1) \div b

Allowed == [next |-> TRUE, status |-> JsUndefined, retryAfter |-> Undefined,
            error |-> Undefined]

SessionLimitMessage == <<"Demasiados mensajes para esta sesion, espera un momento">>
SocketLimitMessage == <<"Demasiada actividad en WebSocket">>

\* a limiter that lets one request too many through
createSessionLimiter_offByOne(entries, key, t, windowMs, max) ==
  IF Falsy(key) THEN [entries |-> entries, verdict |-> Allowed]
  ELSE IF key \notin DOMAIN entries
  THEN [entries |-> MapSet(entries, key, [count |-> 1, resetTime |-> t + windowMs]),
        verdict |-> Allowed]
  ELSE IF t > entries[key].resetTime
  THEN [entries |-> MapSet(entries, key, [count |-> 1, resetTime |-> t + windowMs]),
        verdict |-> Allowed]
  ELSE IF entries[key].count > max
  THEN [entries |-> entries,
        verdict |-> [next |-> FALSE, status |-> JsNum(429),
                     retryAfter |-> <<Ceil(entries[key].resetTime - t, 1000),
                                      " segundos">>,
                     error |-> SessionLimitMessage]]
  ELSE [entries |-> [entries EXCEPT ![key].count = @ + 1],
        verdict |-> Allowed]

\* the middleware that createSessionLimiter(windowMs, max) returns, on a
\* request whose sessionId (body, else query) is key
createSessionLimiter(entries, key, t, windowMs, max) ==
  IF Falsy(key) THEN [entries |-> entries, verdict |-> Allowed]
  ELSE IF key \notin DOMAIN entries
  THEN [entries |-> MapSet(entries, key, [count |-> 1, resetTime |-> t + windowMs]),
        verdict |-> Allowed]
  ELSE IF t > entries[key].resetTime
  THEN [entries |-> MapSet(entries, key, [count |-> 1, resetTime |-> t + windowMs]),
        verdict |-> Allowed]
  ELSE IF entries[key].count >= max
  THEN [entries |-> entries,
        verdict |-> [next |-> FALSE, status |-> JsNum(429),
                     retryAfter |-> <<Ceil(entries[key].resetTime - t, 1000),
                                      " segundos">>,
                     error |-> SessionLimitMessage]]
  ELSE [entries |-> [entries EXCEPT ![key].count = @ + 1],
        verdict |-> Allowed]

\* the middleware that createSocketRateLimiter({windowMs, max}) returns, on
\* the socket whose id is clientId
createSocketRateLimiter(entries, clientId, t, windowMs, max) ==
  IF clientId \notin DOMAIN entries
  THEN [entries |-> MapSet(entries, clientId,
                           [count |-> 1, resetTime |-> t + windowMs]),
        verdict |-> Allowed]
  ELSE IF t > entries[clientId].resetTime
  THEN [entries |-> MapSet(entries, clientId,
                           [count |-> 1, resetTime |-> t + windowMs]),
        verdict |-> Allowed]
  ELSE IF entries[clientId].count >= max
  THEN [entries |-> entries,
        verdict |-> [next |-> FALSE, status |-> JsUndefined,
                     retryAfter |-> Undefined,
                     error |-> SocketLimitMessage]]
  ELSE [entries |-> [entries EXCEPT ![clientId].count = @ + 1],
        verdict |-> Allowed]

\* chatSocket.js, setupMiddleware: the limiter the socket server installs
SocketWindowMs == 60000
SocketMax == 20
SocketLimiter == [kind |-> "socket", windowMs |-> SocketWindowMs,
                  max |-> SocketMax, entries |-> EmptyMap]

----------------------------------------------------------------------------
(* State                                                                   *)

VARIABLES
  now,        \* Date.now(), in ms
  sessions,   \* chatModel.sessions
  messages,   \* chatModel.messages
  reqs,       \* the processMessage invocations, each idle, awaiting or done
  ret,        \* what the last operation returned, answered or emitted
  limiter,    \* a fixed-window limiter: its configuration and its Map
  limLog,     \* the keyed requests the limiter has judged, oldest first
  sockets     \* the connections of the socket server, in order of arrival

vars == <<now, sessions, messages, reqs, ret, limiter, limLog, sockets>>

Reqs == 1..MaxReqs
Rnd == 0..MaxRnd

S1 == <<"s", "1">>
S2 == <<"s", "2">>
SessionIds == {S1, S2}
Hi == <<"h", "i">>

\* arguments of direct calls of chatService.processMessage
DirectSessionIds == {<<>>, S1, S2}
DirectMessages == {<<>>, Hi}

\* request bodies and event payloads that reach the adapters
RawSessionIds == {Undefined, <<"s", SPACE>>, S1, S2}
RawMessages == {<<SPACE>>, <<CTRL>>, <<SPACE, "<", "b">>,
                <<"a", "a", "a", "a", "a", "a", "a">>}

\* request bodies of POST /chat: also a short message made of markup
RestMessages == RawMessages \cup {<<"<", "<">>}

\* what the upstream call can do (getClient never yields null: it builds the
\* client or throws)
LlmOutcomes ==
  {LlmOutcome("noApiKey", Undefined), LlmOutcome("throws", Undefined),
   LlmOutcome("response", Undefined),
   LlmOutcome("response", <<SPACE, "o", "k">>)}

IdleReq ==
  [pc |-> "idle", via |-> "none", sessionId |-> <<>>, userMessage |-> <<>>,
   llmInput |-> <<>>, userMsg |-> JsNull, outcome |-> JsNull,
   result |-> JsNull, isNew |-> FALSE, alone |-> TRUE, sent |-> <<>>,
   userAt |-> 0, replyAt |-> 0, overlaps |-> {}, doneBefore |-> {}]

\* an invocation suspended at the LLM call sees another operation change
\* its session
Disturb(rs, sessionId, self) ==
  [q \in DOMAIN rs |->
     IF q # self /\ rs[q].pc = "awaiting" /\ rs[q].sessionId = sessionId
     THEN [rs[q] EXCEPT !.alone = FALSE] ELSE rs[q]]

\* Math.random(): its values are interchangeable, only their equality
\* shows (in the ids); a draw is one of the values that an id of the
\* current millisecond holds, or the least value that none holds.
UsedRnd == {id[2] : id \in {i \in DOMAIN messages : i[1] = now}}
Draws ==
  UsedRnd \cup {n \in Rnd \ UsedRnd : \A k \in Rnd \ UsedRnd : n <= k}

Init ==
  /\ now = 0
  /\ sessions = EmptyMap
  /\ messages = EmptyMap
  /\ reqs = [r \in Reqs |-> IdleReq]
  /\ ret = [op |-> "init"]
  /\ limiter = SocketLimiter
  /\ limLog = <<>>
  /\ sockets = <<>>

----------------------------------------------------------------------------
(* Operations                                                              *)

Tick ==
  /\ now < MaxClock
  /\ now' = now + 1
  /\ ret' = [op |-> "tick"]
  /\ UNCHANGED <<sessions, messages, reqs,
                 limiter, limLog, sockets>>

\* what an adapter sends to its caller
Sent(event, status, data) == [event |-> event, status |-> status, data |-> data]

\* handleUserMessage, before the call of the service
MessageProcessing(sessionId, t) ==
  Sent("message-processing", JsUndefined,
       [sessionId |-> sessionId, messageId |-> t])

\* an adapter that answers nothing when the result reports a failure
Respond_silentOnFailure(via, result) ==
  IF ~result.success THEN <<>>
  ELSE IF via = "rest" THEN <<Sent("response", JsNum(200), result)>>
  ELSE IF via = "socket"
  THEN <<Sent("bot-reply", JsUndefined,
              [sessionId |-> result.sessionId, message |-> result.message,
               messageId |-> result.messageId,
               timestamp |-> result.timestamp, success |-> result.success])>>
  ELSE <<>>

\* what the adapter does with the result that processMessage resolved to:
\* res.json(result) in the controller, the bot-reply event in the socket
Respond(via, result) ==
  IF via = "rest" THEN <<Sent("response", JsNum(200), result)>>
  ELSE IF via = "socket"
  THEN <<Sent("bot-reply", JsUndefined,
              [sessionId |-> result.sessionId, message |-> result.message,
               messageId |-> result.messageId,
               timestamp |-> result.timestamp, success |-> result.success])>>
  ELSE <<>>

\* where the session's list ends: the place of the message just appended
\* (0 when the session does not exist)
EndOf(ss, sessionId) ==
  IF sessionId \in DOMAIN ss THEN Len(ss[sessionId].messages) ELSE 0

\* the next invocation: slots are taken in order
FreeSlot(r) ==
  /\ reqs[r].pc = "idle"
  /\ \A q \in DOMAIN reqs : q < r => reqs[q].pc # "idle"

\* an adapter refuses the request of slot r before it reaches the service
Refuse(r, via, sessionId, answer) ==
  [reqs EXCEPT ![r] = [IdleReq EXCEPT !.pc = "done", !.via = via,
                                      !.sessionId = sessionId,
                                      !.sent = <<answer>>]]

\* chatService.processMessage(sessionId, userMessage) up to its await
CallProcessMessage(r, via, sessionId, userMessage) ==
  /\ FreeSlot(r)
  /\ \E rnd \in Draws :
       LET b == processMessageBegin(sessions, messages, sessionId,
                                    userMessage, now, rnd)
       IN  /\ sessions' = b.sessions
           /\ messages' = b.messages
           /\ reqs' = [Disturb(reqs, sessionId, r) EXCEPT ![r] =
                [pc |-> IF b.thrown THEN "done" ELSE "awaiting",
                 via |-> via, sessionId |-> sessionId,
                 userMessage |-> userMessage, llmInput |-> b.llmInput,
                 userMsg |-> b.userMsg, outcome |-> JsNull,
                 result |-> b.result,
                 isNew |-> sessionId \notin DOMAIN sessions,
                 alone |-> TRUE,
                 sent |-> (IF via = "socket"
                           THEN <<MessageProcessing(sessionId, now)>>
                           ELSE <<>>)
                          \o (IF b.thrown THEN Respond(via, b.result)
                              ELSE <<>>),
                 userAt |-> IF b.thrown THEN 0
                            ELSE EndOf(b.sessions, sessionId),
                 replyAt |-> IF b.thrown THEN EndOf(b.sessions, sessionId)
                             ELSE 0,
                 overlaps |-> {q \in DOMAIN reqs :
                                 /\ reqs[q].pc = "awaiting"
                                 /\ reqs[q].sessionId = sessionId},
                 doneBefore |-> {q \in DOMAIN reqs : reqs[q].pc = "done"}]]
           /\ ret' = [op |-> "processMessage", req |-> r,
                      returned |-> b.thrown]
  /\ UNCHANGED <<now, limiter, limLog, sockets>>

DirectProcessMessage ==
  \E r \in DOMAIN reqs, sessionId \in DirectSessionIds,
     userMessage \in DirectMessages :
    CallProcessMessage(r, "direct", sessionId, userMessage)

\* ChatController.processMessage: POST /chat
RestPostChat ==
  \E r \in DOMAIN reqs, sessionId \in RawSessionIds, message \in RestMessages :
    LET sessionValidation == validateSessionId(sessionId)
        messageValidation == validateMessage(message)
        sessionBody == [success |-> FALSE, error |-> "SessionId invalido",
                        details |-> sessionValidation.errors]
        messageBody == [success |-> FALSE, error |-> "Mensaje invalido",
                        details |-> messageValidation.errors]
    IN  IF ~sessionValidation.isValid
        THEN /\ FreeSlot(r)
             /\ reqs' = Refuse(r, "rest", sessionId,
                               Sent("response", JsNum(400), sessionBody))
             /\ ret' = [op |-> "POST /chat", status |-> 400,
                        body |-> sessionBody]
             /\ UNCHANGED <<now, sessions, messages,
                 limiter, limLog, sockets>>
        ELSE IF ~messageValidation.isValid
        THEN /\ FreeSlot(r)
             /\ reqs' = Refuse(r, "rest", sessionId,
                               Sent("response", JsNum(400), messageBody))
             /\ ret' = [op |-> "POST /chat", status |-> 400,
                        body |-> messageBody]
             /\ UNCHANGED <<now, sessions, messages,
                 limiter, limLog, sockets>>
        ELSE CallProcessMessage(r, "rest",
                                sessionValidation.sanitizedSessionId,
                                messageValidation.sanitizedMessage)

\* the user-message event without a payload: the destructuring of data
\* throws, and the catch block of handleUserMessage answers
SocketNoPayload(r) ==
  LET processingError == [type |-> "processing",
                          message |-> "Error al procesar el mensaje",
                          details |-> <<"Ocurrio un error interno del servidor">>]
  IN  /\ FreeSlot(r)
      /\ reqs' = Refuse(r, "socket", Undefined,
                        Sent("error", JsUndefined, processingError))
      /\ ret' = [op |-> "user-message", emit |-> "error",
                 data |-> processingError]
      /\ UNCHANGED <<now, sessions, messages, limiter, limLog, sockets>>

\* the user-message event with a payload {sessionId, message}
SocketWithPayload(r) ==
  \E sessionId \in RawSessionIds, message \in RawMessages :
    LET sessionValidation == validateSessionId(sessionId)
        messageValidation == validateMessage(message)
        sessionError == [type |-> "validation",
                         message |-> "SessionId invalido",
                         details |-> sessionValidation.errors]
        messageError == [type |-> "validation",
                         message |-> "Mensaje invalido",
                         details |-> messageValidation.errors]
    IN  IF ~sessionValidation.isValid
        THEN /\ FreeSlot(r)
             /\ reqs' = Refuse(r, "socket", sessionId,
                               Sent("error", JsUndefined, sessionError))
             /\ ret' = [op |-> "user-message", emit |-> "error",
                        data |-> sessionError]
             /\ UNCHANGED <<now, sessions, messages,
                 limiter, limLog, sockets>>
        ELSE IF ~messageValidation.isValid
        THEN /\ FreeSlot(r)
             /\ reqs' = Refuse(r, "socket", sessionId,
                               Sent("error", JsUndefined, messageError))
             /\ ret' = [op |-> "user-message", emit |-> "error",
                        data |-> messageError]
             /\ UNCHANGED <<now, sessions, messages,
                 limiter, limLog, sockets>>
        ELSE CallProcessMessage(r, "socket",
                                sessionValidation.sanitizedSessionId,
                                messageValidation.sanitizedMessage)

\* ChatSocket.handleUserMessage: the user-message event
SocketUserMessage ==
  \E r \in DOMAIN reqs : SocketNoPayload(r) \/ SocketWithPayload(r)

\* the LLM call of invocation r ends and processMessage runs to its return
LlmReturnOf(r) ==
  \E outcome \in LlmOutcomes, rnd \in Draws :
    /\ r \in DOMAIN reqs
    /\ reqs[r].pc = "awaiting"
    /\ LET e == processMessageEnd(sessions, messages, reqs[r].sessionId,
                                  outcome, now, rnd)
       IN  /\ sessions' = e.sessions
           /\ messages' = e.messages
           /\ reqs' = [Disturb(reqs, reqs[r].sessionId, r) EXCEPT ![r] =
                         [@ EXCEPT !.pc = "done", !.outcome = outcome,
                                   !.result = e.result,
                                   !.sent = @ \o Respond(reqs[r].via,
                                                         e.result),
                                   !.replyAt = EndOf(e.sessions,
                                                     reqs[r].sessionId),
                                   !.doneBefore =
                                      {q \in DOMAIN reqs :
                                         reqs[q].pc = "done"}]]
           /\ ret' = [op |-> "processMessage", req |-> r,
                      returned |-> TRUE]
    /\ UNCHANGED <<now, limiter, limLog, sockets>>

LlmReturn == \E r \in DOMAIN reqs : LlmReturnOf(r)

\* chatService.clearSession(sessionId)
ClearSession ==
  \E sessionId \in SessionIds :
    LET c == clearSession(sessions, messages, sessionId)
    IN  /\ sessions' = c.sessions
        /\ messages' = c.messages
        /\ reqs' = Disturb(reqs, sessionId, 0)
        /\ ret' = [op |-> "clearSession", sessionId |-> sessionId,
                   result |-> c.result]
        /\ UNCHANGED <<now, limiter, limLog, sockets>>

\* the conversation service, called directly
Next ==
  \/ Tick
  \/ DirectProcessMessage
  \/ LlmReturn
  \/ ClearSession

Spec == Init /\ [][Next]_vars

\* the running server: every call comes through an adapter
NextServer ==
  \/ Tick
  \/ RestPostChat
  \/ SocketUserMessage
  \/ LlmReturn
  \/ ClearSession

SpecServer == Init /\ [][NextServer]_vars

\* two requests that can overlap; no session is cleared
InitOverlap ==
  /\ now = 0
  /\ sessions = EmptyMap
  /\ messages = EmptyMap
  /\ reqs = [r \in 1..2 |-> IdleReq]
  /\ ret = [op |-> "init"]
  /\ limiter = SocketLimiter
  /\ limLog = <<>>
  /\ sockets = <<>>

NextOverlap ==
  \/ Tick
  \/ DirectProcessMessage
  \/ LlmReturn

SpecOverlap == InitOverlap /\ [][NextOverlap]_vars

\* the socket server, within one millisecond, with an LLM whose every call
\* ends
NextEvents ==
  \/ SocketUserMessage
  \/ LlmReturn
  \/ ClearSession

SpecEvents ==
  Init /\ [][NextEvents]_vars /\ \A r \in Reqs : WF_vars(LlmReturnOf(r))

\* A session that already holds k messages, stored one millisecond ago:
\* user and assistant turns in alternation.
History(sessionId, k) ==
  [i \in 1..k |->
     [id |-> generateId(0, i), sessionId |-> sessionId,
      role |-> IF i % 2 = 1 THEN "user" ELSE "assistant",
      content |-> IF i % 2 = 1 THEN Hi ELSE <<"o", "k">>,
      timestamp |-> 0, metadata |-> NoMetadata]]

InitContext ==
  /\ now = 1
  /\ \E k \in 0..MaxHist :
       /\ sessions = MapSet(EmptyMap, S1,
                       [sessionId |-> S1, createdAt |-> 0, lastActivity |-> 0,
                        messages |-> History(S1, k), context |-> EmptyContext])
       /\ messages = [id \in {generateId(0, i) : i \in 1..k} |->
                        History(S1, k)[id[2]]]
  /\ reqs = [r \in Reqs |-> IdleReq]
  /\ ret = [op |-> "init"]
  /\ limiter = SocketLimiter
  /\ limLog = <<>>
  /\ sockets = <<>>

\* requests on sessions with a history
NextContext ==
  \/ DirectProcessMessage
  \/ LlmReturn

SpecContext == InitContext /\ [][NextContext]_vars

----------------------------------------------------------------------------
(* The store called directly                                               *)

SomeContext == "{ topic }"

StoreCreateOrUpdateSession ==
  \E sessionId \in SessionIds, context \in {EmptyContext, SomeContext} :
    LET c == createOrUpdateSession(sessions, sessionId, context, now)
    IN  /\ sessions' = c.sessions
        /\ ret' = [op |-> "createOrUpdateSession", sessionId |-> sessionId,
                   session |-> c.session]
        /\ UNCHANGED <<now, messages, reqs,
                 limiter, limLog, sockets>>

\* the session id that direct createMessage calls address
MessageTargets == {S1}

StoreCreateMessage ==
  \E sessionId \in MessageTargets, rnd \in Draws :
    /\ Cardinality(DOMAIN messages) < MaxMsgs
    /\ sessionId \in DOMAIN sessions =>
         Len(sessions[sessionId].messages) < MaxMsgs
    /\ LET c == createMessage(sessions, messages, sessionId, "user", Hi,
                              NoMetadata, now, rnd)
       IN  /\ sessions' = c.sessions
           /\ messages' = c.messages
           /\ ret' = [op |-> "createMessage", sessionId |-> sessionId,
                      message |-> c.message]
    /\ UNCHANGED <<now, reqs,
                 limiter, limLog, sockets>>

StoreGetSessionMessages ==
  \E sessionId \in SessionIds,
     limit \in {JsNull} \cup {JsNum(n) : n \in 0..MaxMsgs} :
    /\ ret' = [op |-> "getSessionMessages", sessionId |-> sessionId,
               limit |-> limit,
               list |-> getSessionMessages(sessions, sessionId, limit)]
    /\ UNCHANGED <<now, sessions, messages, reqs,
                 limiter, limLog, sockets>>

StoreDeleteSession ==
  \E sessionId \in SessionIds :
    LET d == deleteSession(sessions, messages, sessionId)
    IN  /\ sessions' = d.sessions
        /\ messages' = d.messages
        /\ ret' = [op |-> "deleteSession", sessionId |-> sessionId,
                   deleted |-> d.result]
        /\ UNCHANGED <<now, reqs,
                 limiter, limLog, sockets>>

NextStore ==
  \/ Tick
  \/ StoreCreateOrUpdateSession
  \/ StoreCreateMessage
  \/ StoreGetSessionMessages
  \/ StoreDeleteSession

SpecStore == Init /\ [][NextStore]_vars

----------------------------------------------------------------------------
(* Claims about the store                                                  *)

\* C6: getSessionMessages(id, n) with a limit n below the number k of
\* messages of the session returns the last n messages in insertion order,
\* for every n from 0 on; without a limit it returns all k; on an unknown
\* id it returns the empty sequence.
C6_LastMessages ==
  ret.op = "getSessionMessages" =>
    IF ret.sessionId \notin DOMAIN sessions THEN ret.list = <<>>
    ELSE LET stored == sessions[ret.sessionId].messages
             k == Len(stored)
         IN  IF ret.limit = JsNull THEN ret.list = stored
             ELSE ret.limit.value < k =>
                    ret.list = SubSeq(stored, k - ret.limit.value + 1, k)

\* C7: deleteSession on an existing session returns true, and then
\* getSession yields null and getSessionMessages yields nothing for that
\* id; on an unknown id it returns false and leaves both maps as they were.
C7_DeleteSession ==
  [][ret'.op = "deleteSession" =>
       IF ret'.sessionId \in DOMAIN sessions
       THEN /\ ret'.deleted = TRUE
            /\ getSession(sessions', ret'.sessionId) = JsNull
            /\ getSessionMessages(sessions', ret'.sessionId, JsNull) = <<>>
       ELSE /\ ret'.deleted = FALSE
            /\ UNCHANGED <<sessions, messages>>]_vars

C7_Witness ==
  /\ ret.op = "deleteSession"
  /\ ret.deleted = TRUE
  /\ ret.sessionId \notin DOMAIN sessions
  /\ DOMAIN sessions # {}
  /\ DOMAIN messages # {}

\* C8: createOrUpdateSession on an existing session returns that session
\* and leaves its messages, createdAt and context, the other sessions and
\* the message map unchanged; no session is added; lastActivity does not
\* move backwards.
C8_CreateOrUpdateIdempotent ==
  [][(ret'.op = "createOrUpdateSession" /\ ret'.sessionId \in DOMAIN sessions) =>
       LET sid == ret'.sessionId
       IN  /\ ret'.session = sessions'[sid]
           /\ DOMAIN sessions' = DOMAIN sessions
           /\ sessions'[sid].messages = sessions[sid].messages
           /\ sessions'[sid].createdAt = sessions[sid].createdAt
           /\ sessions'[sid].context = sessions[sid].context
           /\ sessions'[sid].lastActivity >= sessions[sid].lastActivity
           /\ \A other \in DOMAIN sessions \ {sid} :
                sessions'[other] = sessions[other]
           /\ messages' = messages]_vars

C8_Witness ==
  /\ ret.op = "createOrUpdateSession"
  /\ Len(ret.session.messages) > 0
  /\ ret.session.lastActivity > ret.session.createdAt
  /\ ret.session.lastActivity > ret.session.messages[1].timestamp

----------------------------------------------------------------------------
(* Claims about the conversation service                                   *)

\* invocation r has just returned
JustReturned(r) ==
  ret.op = "processMessage" /\ ret.returned /\ ret.req = r

\* invocation r went as far as the LLM call and that call has ended
LlmEnded(r) == reqs[r].pc = "done" /\ reqs[r].outcome # JsNull

\* C1: a request on a session id that had no session, whose LLM call
\* succeeds with reply r and during which nothing else touched that
\* session, returns {success: true, message: r, sessionId}; at its return
\* the session holds exactly the user message and then the assistant
\* message with content r, and the returned messageId is that message's id.
C1_FirstExchange ==
  \A r \in Reqs :
    ( /\ JustReturned(r) /\ LlmEnded(r)
      /\ reqs[r].isNew /\ reqs[r].alone
      /\ callOpenAI(reqs[r].outcome).ok )
    => LET res == reqs[r].result
           sid == reqs[r].sessionId
           reply == Trim(reqs[r].outcome.content)
           stored == getSessionMessages(sessions, sid, JsNull)
       IN  /\ res.success = TRUE
           /\ res.message = reply
           /\ res.sessionId = sid
           /\ Len(stored) = 2
           /\ stored[1].role = "user"
           /\ stored[1].content = reqs[r].userMessage
           /\ stored[2].role = "assistant"
           /\ stored[2].content = reply
           /\ res.messageId = stored[2].id

C1_Witness ==
  \E r \in Reqs :
    /\ JustReturned(r) /\ LlmEnded(r)
    /\ reqs[r].isNew /\ reqs[r].alone
    /\ reqs[r].outcome = LlmOutcome("response", <<SPACE, "o", "k">>)
    /\ reqs[r].result.message = <<"o", "k">>
    /\ Len(sessions[reqs[r].sessionId].messages) = 2

\* C2: when the LLM call fails (no client, the call throws, or the reply
\* has no content) processMessage returns {success: false, message: the
\* apology, error: the original error message}; if nothing else touched the
\* session meanwhile, the session's last message is the assistant apology
\* with metadata.error = true, right after the request's user message.
C2_LlmFailure ==
  \A r \in Reqs :
    ( /\ JustReturned(r) /\ LlmEnded(r)
      /\ ~callOpenAI(reqs[r].outcome).ok )
    => LET res == reqs[r].result
           sid == reqs[r].sessionId
           stored == getSessionMessages(sessions, sid, JsNull)
           n == Len(stored)
       IN  /\ res.success = FALSE
           /\ res.message = ApologyText
           /\ res.error = ( CASE reqs[r].outcome.kind = "noApiKey" -> ErrNoApiKey
                              [] reqs[r].outcome.kind = "nullClient" -> ErrNoClient
                              [] reqs[r].outcome.kind = "throws" -> ErrUpstream
                              [] OTHER -> ErrNoContent )
           /\ reqs[r].alone =>
                /\ n >= 2
                /\ stored[n].role = "assistant"
                /\ stored[n].content = ApologyText
                /\ stored[n].metadata.error = TRUE
                /\ stored[n].id = res.messageId
                /\ stored[n - 1] = reqs[r].userMsg

C2_Witness ==
  \E r \in Reqs :
    /\ JustReturned(r) /\ LlmEnded(r) /\ reqs[r].alone
    /\ reqs[r].outcome.kind = "throws"
    /\ reqs[r].result.error = ErrUpstream
    /\ sessions[reqs[r].sessionId].messages[2].metadata.error = TRUE

\* the step is a chat request that failed validation: an adapter answered
\* with a validation error, or processMessage got a missing session id or
\* message
ValidationFailureStep ==
  \/ ret'.op = "POST /chat" /\ ret'.status = 400
  \/ ret'.op = "user-message" /\ ret'.emit = "error"
     /\ ret'.data.type = "validation"
  \/ /\ ret'.op = "processMessage"
     /\ reqs[ret'.req].pc = "idle"
     /\ \/ Falsy(reqs'[ret'.req].sessionId)
        \/ Falsy(reqs'[ret'.req].userMessage)

\* C3: a chat request whose session id or message fails validation gets a
\* validation error result and leaves the session map and the message map
\* as they were, at the adapters and at processMessage itself.
C3_ValidationLeavesStore ==
  [][ValidationFailureStep =>
       /\ UNCHANGED <<sessions, messages>>
       /\ ret'.op = "processMessage" =>
            /\ reqs'[ret'.req].pc = "done"
            /\ reqs'[ret'.req].result.success = FALSE]_vars

\* C4: every message of the message map is in the message sequence of
\* exactly one existing session.
C4_MessagesOwned ==
  \A id \in DOMAIN messages :
    Cardinality({sid \in DOMAIN sessions :
                   \E i \in 1..Len(sessions[sid].messages) :
                     sessions[sid].messages[i] = messages[id]}) = 1

\* invocation r has just reached its LLM call
JustSuspended(r) ==
  ret.op = "processMessage" /\ ~ret.returned /\ ret.req = r

\* C5: with m messages stored for the session when the context is assembled
\* (the request's user message among them), the LLM call gets
\* min(m, 10) + 1 messages: the system instruction, then the last
\* min(m, 10) stored messages, oldest first, each as {role, content}.
C5_ContextWindow ==
  \A r \in Reqs :
    JustSuspended(r) =>
      LET stored == sessions[reqs[r].sessionId].messages
          m == Len(stored)
          w == IF m < ContextWindow THEN m ELSE ContextWindow
          sent == reqs[r].llmInput
      IN  /\ Len(sent) = w + 1
          /\ sent[1] = [role |-> "system", content |-> SystemPrompt]
          /\ \A i \in 1..w :
               sent[i + 1] = [role |-> stored[m - w + i].role,
                              content |-> stored[m - w + i].content]

C5_Witness ==
  \E r \in Reqs :
    /\ JustSuspended(r)
    /\ Len(sessions[reqs[r].sessionId].messages) = ContextWindow + 2
    /\ Len(reqs[r].llmInput) = ContextWindow + 1
    /\ reqs[r].llmInput[ContextWindow + 1].content = reqs[r].userMessage

----------------------------------------------------------------------------
(* The limiters called directly                                            *)

Windows == {1000, 1500}
Maxes == {1, 2}
SocketId(i) == <<"k", i>>

InitLimiter ==
  /\ now = 0
  /\ sessions = EmptyMap
  /\ messages = EmptyMap
  /\ reqs = [r \in Reqs |-> IdleReq]
  /\ ret = [op |-> "init"]
  /\ \E kind \in {"session", "socket"}, windowMs \in Windows, max \in Maxes :
       limiter = [kind |-> kind, windowMs |-> windowMs, max |-> max,
                  entries |-> EmptyMap]
  /\ limLog = <<>>
  /\ sockets = <<>>

\* half a second passes
Elapse ==
  /\ now < MaxLimTicks * 500
  /\ now' = now + 500
  /\ ret' = [op |-> "elapse"]
  /\ UNCHANGED <<sessions, messages, reqs, limiter, limLog, sockets>>

Judged(key, r) ==
  [key |-> key, at |-> now, verdict |-> r.verdict,
   count |-> r.entries[key].count]

\* a request passes through the middleware of createSessionLimiter
SessionLimiterCall ==
  \E body \in {Undefined, <<>>, S1, S2}, query \in {Undefined, S2} :
    LET sessionId == IF Falsy(body) THEN query ELSE body
        r == createSessionLimiter(limiter.entries, sessionId, now,
                                  limiter.windowMs, limiter.max)
    IN  /\ limiter.kind = "session"
        /\ ~Falsy(sessionId) => Len(limLog) < MaxLimReqs
        /\ limiter' = [limiter EXCEPT !.entries = r.entries]
        /\ limLog' = IF Falsy(sessionId) THEN limLog
                     ELSE Append(limLog, Judged(sessionId, r))
        /\ ret' = [op |-> "sessionLimiter", key |-> sessionId,
                   verdict |-> r.verdict]
        /\ UNCHANGED <<now, sessions, messages, reqs, sockets>>

\* a socket passes through the middleware of createSocketRateLimiter
SocketLimiterCall ==
  \E clientId \in {SocketId(1), SocketId(2)} :
    LET r == createSocketRateLimiter(limiter.entries, clientId, now,
                                     limiter.windowMs, limiter.max)
    IN  /\ limiter.kind = "socket"
        /\ Len(limLog) < MaxLimReqs
        /\ limiter' = [limiter EXCEPT !.entries = r.entries]
        /\ limLog' = Append(limLog, Judged(clientId, r))
        /\ ret' = [op |-> "socketLimiter", key |-> clientId,
                   verdict |-> r.verdict]
        /\ UNCHANGED <<now, sessions, messages, reqs, sockets>>

NextLimiter ==
  \/ Elapse
  \/ SessionLimiterCall
  \/ SocketLimiterCall

SpecLimiter == InitLimiter /\ [][NextLimiter]_vars

----------------------------------------------------------------------------
(* Claims about the limiters                                               *)

\* the requests of one key, oldest first
KeyLog(key) == SelectSeq(limLog, LAMBDA e : e.key = key)

\* What a fixed window of length W and size M prescribes for the requests
\* of one key: a request opens a window when it is the first of the key or
\* arrives after the current window (opened at start) has elapsed; the
\* requests of a window are allowed up to the M-th.
RECURSIVE Prescribed(_, _, _, _, _)
Prescribed(log, start, seen, W, M) ==
  IF log = <<>> THEN <<>>
  ELSE LET t == Head(log).at
           opens == start < 0 \/ t > start + W
       IN  <<[opens |-> opens, allowed |-> opens \/ seen < M]>>
           \o Prescribed(Tail(log), IF opens THEN t ELSE start,
                         IF opens THEN 1 ELSE seen + 1, W, M)

\* C9: for each key of a fixed-window limiter with window W and max M >= 1,
\* the first M requests of a window are allowed and every further request
\* of that window is rejected (by the session limiter with status 429 and a
\* retry-after hint); the first request after the window has elapsed is
\* allowed and opens a new window with the counter at 1.
C9_FixedWindow ==
  \A key \in {limLog[i].key : i \in DOMAIN limLog} :
    LET log == KeyLog(key)
        want == Prescribed(log, -1, 0, limiter.windowMs, limiter.max)
    IN  \A i \in DOMAIN log :
          /\ log[i].verdict.next = want[i].allowed
          /\ want[i].opens => log[i].count = 1
          /\ (~want[i].allowed /\ limiter.kind = "session") =>
               /\ log[i].verdict.status = JsNum(429)
               /\ Len(log[i].verdict.retryAfter) = 2

C9_Witness ==
  /\ limiter.kind = "session"
  /\ limiter.max = 2
  /\ Len(limLog) = 4
  /\ \A i \in 1..4 : limLog[i].key = S1
  /\ [i \in 1..4 |-> limLog[i].verdict.next] = <<TRUE, TRUE, FALSE, TRUE>>
  /\ limLog[3].verdict.retryAfter[1] = 1
  /\ limLog[4].count = 1

----------------------------------------------------------------------------
(* The socket server                                                       *)

HistoryDefaultLimit == 50

InitSocket ==
  /\ now = 0
  /\ sessions = MapSet(EmptyMap, S1,
                  [sessionId |-> S1, createdAt |-> 0, lastActivity |-> 0,
                   messages |-> History(S1, 2), context |-> EmptyContext])
  /\ messages = [id \in {generateId(0, i) : i \in 1..2} |->
                   History(S1, 2)[id[2]]]
  /\ reqs = [r \in Reqs |-> IdleReq]
  /\ ret = [op |-> "init"]
  /\ limiter = SocketLimiter
  /\ limLog = <<>>
  /\ sockets = <<>>

\* a client connects: the middleware installed with io.use runs on the new
\* socket, whose id no earlier socket had; then the handlers are registered
SocketConnect ==
  LET id == SocketId(Len(sockets) + 1)
      r == createSocketRateLimiter(limiter.entries, id, now,
                                   limiter.windowMs, limiter.max)
  IN  /\ Len(sockets) < MaxSockets
      /\ limiter' = [limiter EXCEPT !.entries = r.entries]
      /\ sockets' = IF r.verdict.next
                    THEN Append(sockets, [id |-> id, connected |-> TRUE,
                                          connectedAt |-> now, events |-> 0,
                                          sessionId |-> Undefined,
                                          rooms |-> {}])
                    ELSE sockets
      /\ ret' = [op |-> "connection", socket |-> id, verdict |-> r.verdict]
      /\ UNCHANGED <<now, sessions, messages, reqs, limLog>>

\* the handler of an inbound event of socket i has run
Handled(i) == [sockets EXCEPT ![i].events = @ + 1]

SocketPing ==
  \E i \in DOMAIN sockets :
    /\ sockets[i].connected
    /\ sockets[i].events <= SocketMax
    /\ sockets' = Handled(i)
    /\ ret' = [op |-> "ping", socket |-> sockets[i].id, emit |-> "pong",
               data |-> [timestamp |-> now]]
    /\ UNCHANGED <<now, sessions, messages, reqs, limiter, limLog>>

\* data.limit of a get-history event: absent, or a number
SocketLimitInputs == {JsUndefined, JsNum(1), JsNum(0), JsNum(-1)}

\* ChatSocket.handleGetHistory: the get-history event
SocketGetHistory ==
  \E i \in DOMAIN sockets, sessionId \in RawSessionIds,
     given \in SocketLimitInputs :
    LET limit == IF given = JsUndefined THEN JsNum(HistoryDefaultLimit)
                 ELSE given
        sessionValidation == validateSessionId(sessionId)
    IN  /\ sockets[i].connected
        /\ sockets[i].events <= SocketMax
        /\ sockets' = Handled(i)
        /\ ret' = IF ~sessionValidation.isValid
                  THEN [op |-> "get-history", socket |-> sockets[i].id,
                        sessionId |-> sessionId, limit |-> given,
                        emit |-> "error",
                        data |-> [type |-> "validation",
                                  message |-> "SessionId invalido",
                                  details |-> sessionValidation.errors]]
                  ELSE [op |-> "get-history", socket |-> sockets[i].id,
                        sessionId |-> sessionId, limit |-> given,
                        emit |-> "history-response",
                        data |-> getSessionHistory(sessions,
                                   sessionValidation.sanitizedSessionId,
                                   limit)]
        /\ UNCHANGED <<now, sessions, messages, reqs, limiter, limLog>>

SocketDisconnect ==
  \E i \in DOMAIN sockets :
    /\ sockets[i].connected
    /\ sockets' = [sockets EXCEPT ![i].connected = FALSE]
    /\ ret' = [op |-> "disconnect", socket |-> sockets[i].id]
    /\ UNCHANGED <<now, sessions, messages, reqs, limiter, limLog>>

NextSocket ==
  \/ Tick
  \/ SocketConnect
  \/ SocketPing
  \/ SocketGetHistory
  \/ SocketDisconnect

SpecSocket == InitSocket /\ [][NextSocket]_vars

\* C10: inbound events are limited per socket at 20 events per one-minute
\* window: of the events a connected socket sends within one window, no
\* more than 20 are processed.
C10_EventsLimited ==
  \A i \in DOMAIN sockets :
    now - sockets[i].connectedAt < SocketWindowMs =>
      sockets[i].events <= SocketMax

----------------------------------------------------------------------------
(* Claims about the adapters                                               *)

\* the text of the error that made the LLM call of invocation r fail
OriginalError(r) == callOpenAI(reqs[r].outcome).value

LlmFailed(r) == LlmEnded(r) /\ ~callOpenAI(reqs[r].outcome).ok

\* C11: when the LLM call fails, nothing the caller receives (the body of
\* the REST response, the bot-reply or error event of the socket) carries
\* the text of the original error.
C11_ErrorTextNotExposed ==
  \A r \in DOMAIN reqs :
    LlmFailed(r) =>
      \A i \in DOMAIN reqs[r].sent :
        LET data == reqs[r].sent[i].data
        IN  "error" \in DOMAIN data => data.error # OriginalError(r)

\* the names of the events sent for invocation r, in order
Events(r) == [i \in DOMAIN reqs[r].sent |-> reqs[r].sent[i].event]

C12_Answered ==
  \A r \in DOMAIN reqs :
    reqs[r].via = "socket" =>
      /\ reqs[r].pc = "awaiting" => Events(r) = <<"message-processing">>
      /\ reqs[r].pc = "done" =>
           \/ Events(r) = <<"error">>
           \/ /\ Events(r) = <<"message-processing", "bot-reply">>
              /\ reqs[r].sent[2].data.success = callOpenAI(reqs[r].outcome).ok

\* C12: every user-message event is answered on its socket by exactly one
\* terminal event once the LLM call has ended: message-processing and later
\* one bot-reply (success false when the LLM failed), or one error event
\* alone; bot-reply never comes before message-processing.
C12_OneTerminalEvent ==
  /\ []C12_Answered
  /\ \A r \in Reqs : (reqs[r].pc = "awaiting") ~> (reqs[r].pc = "done")

C12_Witness ==
  \E r \in DOMAIN reqs :
    /\ reqs[r].via = "socket"
    /\ LlmFailed(r)
    /\ Events(r) = <<"message-processing", "bot-reply">>
    /\ reqs[r].sent[2].data.success = FALSE

----------------------------------------------------------------------------
(* Claims about overlapping requests                                       *)

\* invocation b began, and reached its own LLM call, while the LLM call of
\* invocation a, for the same session, was pending
Overlap(a, b) == reqs[b].userAt > 0 /\ a \in reqs[b].overlaps

\* C13: two requests for one session whose LLM calls overlap are not
\* serialized: both user messages are stored, in arrival order, before
\* either reply; the context of the second holds the user message of the
\* first and not its reply; the replies are stored in the order in which
\* the LLM calls end; each reply comes after the user message of its own
\* request.
C13_Overlap ==
  \A a \in DOMAIN reqs, b \in DOMAIN reqs :
    Overlap(a, b) =>
      LET stored == sessions[reqs[b].sessionId].messages
          ua == reqs[a].userAt
          ub == reqs[b].userAt
          Ended(r) == reqs[r].pc = "done"
      IN  /\ 0 < ua /\ ua < ub
          /\ stored[ua] = reqs[a].userMsg
          /\ stored[ub] = reqs[b].userMsg
          /\ reqs[b].llmInput =
               prepareMessagesForOpenAI(
                 JsSlice(SubSeq(stored, 1, ub), -ContextWindow))
          /\ ub - ua < ContextWindow =>
               reqs[b].llmInput[Len(reqs[b].llmInput) - (ub - ua)]
                 = [role |-> "user", content |-> reqs[a].userMessage]
          /\ \A r \in {a, b} :
               Ended(r) => /\ reqs[r].replyAt > ub
                           /\ stored[reqs[r].replyAt].id = reqs[r].result.messageId
                           /\ stored[reqs[r].replyAt].role = "assistant"
          /\ (Ended(a) /\ Ended(b)) =>
               (reqs[a].replyAt < reqs[b].replyAt <=> a \in reqs[b].doneBefore)

\* the second request's reply is stored before the first's
C13_Witness ==
  \E a \in DOMAIN reqs, b \in DOMAIN reqs :
    /\ Overlap(a, b)
    /\ reqs[a].pc = "done" /\ reqs[b].pc = "done"
    /\ reqs[a].userAt = 1 /\ reqs[b].userAt = 2
    /\ reqs[b].replyAt = 3 /\ reqs[a].replyAt = 4
    /\ Len(reqs[b].llmInput) = 3

----------------------------------------------------------------------------
(* Generation options: validateOptions and their resolution in callOpenAI  *)

\* values of the fields of an options object.  Numbers carry one decimal
\* place: JsDec(t) is the number t / 10, so 0.7 is JsDec(7) and 4000 is
\* JsDec(40000)
JsStr(s) == [type |-> "string", chars |-> s]
JsDec(t) == [type |-> "number", tenths |-> t]
JsBool(b) == [type |-> "boolean", bool |-> b]
JsObject(fields) == [type |-> "object", fields |-> fields]

\* ToBoolean(value)
ToBoolean(v) ==
  CASE v.type = "string"  -> v.chars # <<>>
    [] v.type = "number"  -> v.tenths # 0
    [] v.type = "boolean" -> v.bool
    [] v.type = "object"  -> TRUE
    [] OTHER              -> FALSE

\* property access: a missing property reads as undefined
Get(fields, key) == IF key \in DOMAIN fields THEN fields[key] ELSE JsUndefined

Digits == {"0", "1", "2", "3", "4", "5", "6", "7", "8", "9"}

DigitVal(c) ==
  CASE c = "0" -> 0 [] c = "1" -> 1 [] c = "2" -> 2 [] c = "3" -> 3
    [] c = "4" -> 4 [] c = "5" -> 5 [] c = "6" -> 6 [] c = "7" -> 7
    [] c = "8" -> 8 [] c = "9" -> 9

\* a parsed number: NaN, or the value in tenths
NaN == [nan |-> TRUE, tenths |-> 0]
Num(t) == [nan |-> FALSE, tenths |-> t]

\* the longest prefix of decimal digits
RECURSIVE DigitPrefix(_)
DigitPrefix(s) ==
  IF s # <<>> /\ Head(s) \in Digits
  THEN <<Head(s)>> \o DigitPrefix(Tail(s)) ELSE <<>>

\* the value of a string of decimal digits
RECURSIVE DigitsValue(_)
DigitsValue(ds) ==
  IF ds = <<>> THEN 0
  ELSE 10 * DigitsValue(SubSeq(ds, 1, Len(ds) - 1)) + DigitVal(ds[Len(ds)])

\* the leading white space and the sign that parseFloat and parseInt skip
RECURSIVE SkipWhiteSpace(_)
SkipWhiteSpace(s) ==
  IF s # <<>> /\ Head(s) \in WhiteSpace \cup {"\\n"}
  THEN SkipWhiteSpace(Tail(s)) ELSE s

SignOf(s) == IF s # <<>> /\ Head(s) = "-" THEN -1 ELSE 1
Unsigned(s) == IF s # <<>> /\ Head(s) \in {"-", "+"} THEN Tail(s) ELSE s

\* parseFloat of a string: white space, sign, digits, and a fraction of which
\* the first decimal place is kept
ParseFloatString(chars) ==
  LET s == SkipWhiteSpace(chars)
      body == Unsigned(s)
      whole == DigitPrefix(body)
      rest == SubSeq(body, Len(whole) + 1, Len(body))
      fraction == IF rest # <<>> /\ Head(rest) = "."
                  THEN DigitPrefix(Tail(rest)) ELSE <<>>
  IN  IF whole = <<>> /\ fraction = <<>> THEN NaN
      ELSE Num(SignOf(s) * (10 * DigitsValue(whole)
                            + (IF fraction = <<>> THEN 0
                               ELSE DigitVal(fraction[1]))))

\* parseInt of a string: white space, sign, digits
ParseIntString(chars) ==
  LET s == SkipWhiteSpace(chars)
      whole == DigitPrefix(Unsigned(s))
  IN  IF whole = <<>> THEN NaN
      ELSE Num(SignOf(s) * 10 * DigitsValue(whole))

\* parseFloat(value): a number converts to its decimal text and back
parseFloat(v) ==
  CASE v.type = "number" -> Num(v.tenths)
    [] v.type = "string" -> ParseFloatString(v.chars)
    [] OTHER             -> NaN

\* parseInt(value): the decimal text of a number stops at the point
parseInt(v) ==
  CASE v.type = "number" ->
         Num((IF v.tenths < 0 THEN -1 ELSE 1)
             * 10 * ((IF v.tenths < 0 THEN -v.tenths ELSE v.tenths) \div 10))
    [] v.type = "string" -> ParseIntString(v.chars)
    [] OTHER             -> NaN

allowedModels == {<<"gpt-4o-mini">>, <<"gpt-4o">>, <<"gpt-3.5-turbo">>}
MaxTemperature == 2
MaxTokensLimit == 4000

\* validateOptions without the upper limit of the temperature
validateOptions_noUpperLimit(options) ==
  IF options.type # "object" THEN EmptyMap
  ELSE
    LET model == Get(options.fields, "model")
        temp == parseFloat(Get(options.fields, "temperature"))
        tokens == parseInt(Get(options.fields, "maxTokens"))
        withModel ==
          IF ToBoolean(model) /\ model.type = "string"
             /\ model.chars \in allowedModels
          THEN MapSet(EmptyMap, "model", model) ELSE EmptyMap
        withTemperature ==
          IF ~temp.nan /\ temp.tenths >= 0
          THEN MapSet(withModel, "temperature", JsDec(temp.tenths))
          ELSE withModel
    IN  IF ~tokens.nan /\ tokens.tenths > 0
           /\ tokens.tenths <= 10 * MaxTokensLimit
        THEN MapSet(withTemperature, "maxTokens", JsDec(tokens.tenths))
        ELSE withTemperature

\* validateOptions(options): the validated options, a map of at most the
\* keys model, temperature and maxTokens
validateOptions(options) ==
  IF options.type # "object" THEN EmptyMap
  ELSE
    LET model == Get(options.fields, "model")
        temperature == Get(options.fields, "temperature")
        maxTokens == Get(options.fields, "maxTokens")
        temp == parseFloat(temperature)
        tokens == parseInt(maxTokens)
        withModel ==
          IF ToBoolean(model) /\ model.type = "string"
             /\ model.chars \in allowedModels
          THEN MapSet(EmptyMap, "model", model) ELSE EmptyMap
        withTemperature ==
          IF temperature # JsUndefined
             /\ ~temp.nan /\ temp.tenths >= 0
             /\ temp.tenths <= 10 * MaxTemperature
          THEN MapSet(withModel, "temperature", JsDec(temp.tenths))
          ELSE withModel
    IN  IF maxTokens # JsUndefined
           /\ ~tokens.nan /\ tokens.tenths > 0
           /\ tokens.tenths <= 10 * MaxTokensLimit
        THEN MapSet(withTemperature, "maxTokens", JsDec(tokens.tenths))
        ELSE withTemperature

\* the defaults of the service, with OPENAI_MODEL, OPENAI_MAX_TOKENS and
\* OPENAI_TEMPERATURE unset
defaultModel == JsStr(<<"gpt-4o-mini">>)
maxTokens == JsDec(10 * 1000)
temperature == JsDec(7)

\* callOpenAI: the options of the completion request
CompletionOptions(options) ==
  [model |-> IF ToBoolean(Get(options, "model"))
             THEN options["model"] ELSE defaultModel,
   temperature |-> IF ToBoolean(Get(options, "temperature"))
                   THEN options["temperature"] ELSE temperature,
   max_tokens |-> IF ToBoolean(Get(options, "maxTokens"))
                  THEN options["maxTokens"] ELSE maxTokens]

----------------------------------------------------------------------------
(* The validators called directly                                          *)

NEWLINE == "\\n"

\* the strings of at most n characters of an alphabet, and c repeated n times
Strs(alphabet, n) == UNION {[1..k -> alphabet] : k \in 0..n}
Rep(c, n) == [i \in 1..n |-> c]

\* session ids: short strings of characters inside and outside the class
\* [a-zA-Z0-9_-], strings around 100 characters, and values of other types
SessionIdInputs ==
  NonStrings
  \cup Strs({"a", "Z", "1", "_", "-", SPACE, "<", NEWLINE}, MaxStr)
  \cup {Rep(c, n) : c \in {"a", "_"}, n \in {99, 100, 101}}
  \cup {Rep("a", n) \o <<c>> : c \in {"Z", ".", NEWLINE}, n \in {98, 99, 100}}

ValidateSessionIdCall ==
  \E sessionId \in SessionIdInputs :
    /\ ret' = [op |-> "validateSessionId", sessionId |-> sessionId,
               validation |-> validateSessionId(sessionId)]
    /\ UNCHANGED <<now, sessions, messages, reqs, limiter, limLog, sockets>>

\* messages: short strings with white space, control characters and markup,
\* strings around the maximum length, values of other types, and a control
\* character at an end of the text with white space next to it
MessageInputs ==
  NonStrings
  \cup Strs({"a", SPACE, TAB, CTRL, "<"}, MaxStr)
  \cup {Rep(c, n) : c \in {"a", SPACE, CTRL, "<"},
                    n \in {maxLength - 1, maxLength, maxLength + 1}}
  \cup {<<c>> \o Rep("a", n) : c \in {SPACE, CTRL},
                               n \in {maxLength - 1, maxLength}}
  \cup {<<CTRL, SPACE, "a">>, <<"a", SPACE, CTRL>>}

ValidateMessageCall ==
  \E message \in MessageInputs :
    /\ ret' = [op |-> "validateMessage", message |-> message,
               validation |-> validateMessage(message)]
    /\ UNCHANGED <<now, sessions, messages, reqs, limiter, limLog, sockets>>

\* the options of a request: no options, null, a string, and objects with
\* any of the keys model, temperature, maxTokens and stream
ModelInputs ==
  {JsStr(<<"gpt-4o">>), JsStr(<<"gpt-5">>), JsStr(<<>>), JsBool(TRUE)}

TemperatureInputs ==
  {JsDec(0), JsDec(20), JsDec(21), JsDec(-1), JsNull,
   JsStr(<<"1", ".", "5">>), JsStr(<<"z">>)}

MaxTokensInputs ==
  {JsDec(10), JsDec(10 * MaxTokensLimit), JsDec(10 * MaxTokensLimit + 10),
   JsDec(0), JsDec(15), JsNull, JsStr(<<"1", "2", "z">>)}

OptionFields ==
  {[k \in keys |-> CASE k = "model" -> m
                     [] k = "temperature" -> t
                     [] k = "maxTokens" -> n
                     [] OTHER -> JsBool(TRUE)] :
     keys \in SUBSET {"model", "temperature", "maxTokens", "stream"},
     m \in ModelInputs, t \in TemperatureInputs, n \in MaxTokensInputs}

OptionInputs ==
  {JsUndefined, JsNull, JsStr(<<"z">>)}
    \cup {JsObject(fields) : fields \in OptionFields}

\* const { options = {} } = body
DefaultOptions(options) ==
  IF options = JsUndefined THEN JsObject(EmptyMap) ELSE options

ValidateOptionsCall ==
  \E options \in OptionInputs :
    /\ ret' = [op |-> "validateOptions", options |-> options,
               validated |-> validateOptions(DefaultOptions(options))]
    /\ UNCHANGED <<now, sessions, messages, reqs, limiter, limLog, sockets>>

\* the options of a request on their way to the LLM: validated by the
\* handler, handed to processMessage and resolved by callOpenAI
CallOpenAIOptions ==
  \E options \in OptionInputs :
    LET validatedOptions == validateOptions(DefaultOptions(options))
    IN  /\ ret' = [op |-> "callOpenAI", options |-> options,
                   validated |-> validatedOptions,
                   request |-> CompletionOptions(validatedOptions)]
        /\ UNCHANGED <<now, sessions, messages, reqs, limiter, limLog,
                       sockets>>

\* texts with white space, control characters and markup
SanitizeInputs ==
  NonStrings \cup Strs({"a", SPACE, TAB, CTRL, "<"}, MaxStr + 1)

SanitizeStringCall ==
  \E input \in SanitizeInputs :
    /\ ret' = [op |-> "sanitizeString", input |-> input,
               output |-> sanitizeString(input)]
    /\ UNCHANGED <<now, sessions, messages, reqs, limiter, limLog, sockets>>

----------------------------------------------------------------------------
(* Claims about the validators                                             *)

\* x matches ^[A-Za-z0-9_-]{1,100}$
MatchesSessionId(x) ==
  /\ IsString(x)
  /\ Len(x) >= 1 /\ Len(x) <= 100
  /\ \A i \in 1..Len(x) : x[i] \in SessionIdChars

\* C14: validateSessionId accepts exactly the strings that match
\* ^[A-Za-z0-9_-]{1,100}$ and returns them unchanged with no errors; any
\* other value is rejected with isValid false and at least one error.
C14_SessionIdAccepted ==
  ret.op = "validateSessionId" =>
    IF MatchesSessionId(ret.sessionId)
    THEN /\ ret.validation.isValid
         /\ ret.validation.sanitizedSessionId = ret.sessionId
         /\ ret.validation.errors = <<>>
    ELSE /\ ~ret.validation.isValid
         /\ Len(ret.validation.errors) > 0

C14_Witness ==
  /\ ret.op = "validateSessionId"
  /\ ret.sessionId = Rep("_", 100)
  /\ ret.validation.isValid
  /\ ~validateSessionId(Rep("_", 101)).isValid
  /\ ~validateSessionId(<<"a", NEWLINE>>).isValid

\* the message is a string that trimming does not empty
NonBlank(m) == IsString(m) /\ Trim(m) # <<>>

C15_Rejections ==
  LET m == ret.message
      v == ret.validation
  IN  /\ m = <<>> => ~v.isValid /\ v.errors = <<ErrEmptyMessage>>
      /\ (IsString(m) /\ m # <<>> /\ Trim(m) = <<>>) =>
           ~v.isValid /\ v.errors = <<ErrEmptyMessage>>
      /\ (NonBlank(m) /\ Len(m) > maxLength) =>
           ~v.isValid /\ v.errors = <<ErrMessageTooLong>>

\* C15: validateMessage rejects the empty string, a string that is blank
\* after trimming and a string longer than the maximum length, each with
\* the reason of its case, and accepts every non-blank message whose
\* length is exactly the maximum.
C15_MessageChecked ==
  ret.op = "validateMessage" =>
    /\ C15_Rejections
    /\ (NonBlank(ret.message) /\ Len(ret.message) = maxLength) =>
         ret.validation.isValid

\* C15 as amended: the three rejections as claimed; a non-blank message of
\* exactly the maximum length is accepted when trimming and the removal of
\* control characters leave at least one character, and is otherwise
\* rejected as made of invalid characters only.
C15_MessageCheckedAmended ==
  ret.op = "validateMessage" =>
    /\ C15_Rejections
    /\ (NonBlank(ret.message) /\ Len(ret.message) = maxLength) =>
         IF RemoveChars(Trim(ret.message), ControlChars) # <<>>
         THEN ret.validation.isValid
         ELSE /\ ~ret.validation.isValid
              /\ ret.validation.errors = <<ErrMessageOnlyInvalid>>

C15_Witness ==
  /\ ret.op = "validateMessage"
  /\ ret.message = <<CTRL>> \o Rep("a", maxLength - 1)
  /\ ret.validation.isValid
  /\ ret.validation.sanitizedMessage = Rep("a", maxLength - 1)
  /\ ~validateMessage(Rep("a", maxLength + 1)).isValid
  /\ ~validateMessage(Rep(CTRL, maxLength)).isValid

\* the characters that sanitizeString escapes
SpecialChars == {"&", "<", ">", "\"", "'", "/"}

\* C16: on every string without the characters & < > " ' / sanitizeString
\* is idempotent, also when the string holds control characters next to
\* white space: sanitizing the sanitized text changes nothing.
C16_SanitizeIdempotent ==
  (/\ ret.op = "sanitizeString"
   /\ IsString(ret.input)
   /\ \A i \in 1..Len(ret.input) : ret.input[i] \notin SpecialChars)
  => sanitizeString(ret.output) = ret.output

\* C17: a value of the request that passed validateOptions always wins over
\* the default of the service: the model, the temperature (0 included) and
\* the maxTokens sent to the LLM are the validated values, and the default
\* is sent only for a field without a valid value.
C17_RequestOptionsWin ==
  ret.op = "callOpenAI" =>
    /\ ret.request.model =
         (IF "model" \in DOMAIN ret.validated
          THEN ret.validated["model"] ELSE defaultModel)
    /\ ret.request.temperature =
         (IF "temperature" \in DOMAIN ret.validated
          THEN ret.validated["temperature"] ELSE temperature)
    /\ ret.request.max_tokens =
         (IF "maxTokens" \in DOMAIN ret.validated
          THEN ret.validated["maxTokens"] ELSE maxTokens)

\* the value a request supplies for a key of its options
Supplied(key) ==
  IF ret.options.type = "object" THEN Get(ret.options.fields, key)
  ELSE JsUndefined

IsNumber(v) == v.type = "number"
IsInteger(v) == v.type = "number" /\ v.tenths % 10 = 0

InTemperatureRange(v) ==
  IsNumber(v) /\ v.tenths >= 0 /\ v.tenths <= 10 * MaxTemperature

InMaxTokensRange(v) ==
  IsInteger(v) /\ v.tenths >= 10 /\ v.tenths <= 10 * MaxTokensLimit

\* C18: validateOptions returns, for any input, an object with no keys but
\* model, temperature and maxTokens: a model of the whitelist, a temperature
\* that is a number in [0,2] and a maxTokens that is an integer in 1..4000.
\* A supplied value that is valid is kept as it is whatever the other
\* fields are; a supplied value that is no number, or a number outside the
\* range, is absent from the result.
C18_OptionsFiltered ==
  ret.op = "validateOptions" =>
    LET v == ret.validated
        model == Supplied("model")
        temp == Supplied("temperature")
        tokens == Supplied("maxTokens")
    IN  /\ DOMAIN v \subseteq {"model", "temperature", "maxTokens"}
        /\ "model" \in DOMAIN v =>
             v["model"].type = "string" /\ v["model"].chars \in allowedModels
        /\ "temperature" \in DOMAIN v => InTemperatureRange(v["temperature"])
        /\ "maxTokens" \in DOMAIN v => InMaxTokensRange(v["maxTokens"])
        /\ (model.type = "string" /\ model.chars \in allowedModels)
             => "model" \in DOMAIN v /\ v["model"] = model
        /\ ~(model.type = "string" /\ model.chars \in allowedModels)
             => "model" \notin DOMAIN v
        /\ InTemperatureRange(temp)
             => "temperature" \in DOMAIN v /\ v["temperature"] = temp
        /\ (temp.type \in {"null", "undefined", "boolean"}
            \/ (IsNumber(temp) /\ ~InTemperatureRange(temp)))
             => "temperature" \notin DOMAIN v
        /\ InMaxTokensRange(tokens)
             => "maxTokens" \in DOMAIN v /\ v["maxTokens"] = tokens
        /\ (tokens.type \in {"null", "undefined", "boolean"}
            \/ (IsNumber(tokens)
                /\ (tokens.tenths < 10 \/ tokens.tenths >= 10 * MaxTokensLimit + 10)))
             => "maxTokens" \notin DOMAIN v

\* an out-of-range temperature and an unlisted key are dropped while the
\* valid model and maxTokens next to them are kept
C18_Witness ==
  /\ ret.op = "validateOptions"
  /\ ret.options.type = "object"
  /\ DOMAIN ret.options.fields = {"model", "temperature", "maxTokens", "stream"}
  /\ Supplied("temperature") = JsDec(21)
  /\ DOMAIN ret.validated = {"model", "maxTokens"}

NextValidators ==
  \/ ValidateSessionIdCall
  \/ ValidateMessageCall
  \/ SanitizeStringCall
  \/ ValidateOptionsCall
  \/ CallOpenAIOptions

SpecValidators == Init /\ [][NextValidators]_vars

----------------------------------------------------------------------------
(* The history of a session: chatService.getSessionHistory, called         *)
(* directly and through GET /chat/history/:sessionId                       *)

\* limit = 50, the default of the service and of the controller
DefaultHistoryLimit == 50
MinHistoryLimit == 1
MaxHistoryLimit == 100

GetSessionHistory ==
  \E sessionId \in SessionIds, given \in {JsUndefined, JsNum(1)} :
    LET limit == IF given = JsUndefined THEN JsNum(DefaultHistoryLimit)
                 ELSE given
    IN  /\ ret' = [op |-> "getSessionHistory", sessionId |-> sessionId,
                   limit |-> limit,
                   result |-> getSessionHistory(sessions, sessionId, limit)]
        /\ UNCHANGED <<now, sessions, messages, reqs, limiter, limLog,
                       sockets>>

\* req.query.limit: absent, or the text of the query string
LimitInputs ==
  {JsUndefined, JsStr(<<>>), JsStr(<<"z">>), JsStr(<<"0">>),
   JsStr(<<"1">>), JsStr(<<"2">>), JsStr(<<"-", "1">>),
   JsStr(<<"1", "0", "0">>), JsStr(<<"1", "0", "1">>)}

\* ChatController.getSessionHistory: GET /chat/history/:sessionId.  The
\* field read tells whether the handler called the service
RestGetHistory ==
  \E sessionId \in RawSessionIds \ {Undefined}, query \in LimitInputs :
    LET limit == IF query = JsUndefined THEN JsDec(10 * DefaultHistoryLimit)
                 ELSE query
        sessionValidation == validateSessionId(sessionId)
        limitNum == parseInt(limit)
        sessionBody == [success |-> FALSE, error |-> "SessionId invalido",
                        details |-> sessionValidation.errors]
        limitBody == [success |-> FALSE, error |-> "Limite invalido",
                      message |->
                        "El limite debe ser un numero entre 1 y 100"]
        answer ==
          IF ~sessionValidation.isValid
          THEN [status |-> 400, body |-> sessionBody, read |-> FALSE]
          ELSE IF \/ limitNum.nan
                  \/ limitNum.tenths < 10 * MinHistoryLimit
                  \/ limitNum.tenths > 10 * MaxHistoryLimit
          THEN [status |-> 400, body |-> limitBody, read |-> FALSE]
          ELSE [status |-> 200,
                body |-> getSessionHistory(
                           sessions, sessionValidation.sanitizedSessionId,
                           JsNum(limitNum.tenths \div 10)),
                read |-> TRUE]
    IN  /\ ret' = [op |-> "GET /chat/history", sessionId |-> sessionId,
                   limit |-> query, status |-> answer.status,
                   body |-> answer.body, read |-> answer.read]
        /\ UNCHANGED <<now, sessions, messages, reqs, limiter, limLog,
                       sockets>>

NextHistory ==
  \/ DirectProcessMessage
  \/ LlmReturn
  \/ ClearSession
  \/ GetSessionHistory
  \/ RestGetHistory

\* one invocation of processMessage at a time fills the sessions
InitHistory ==
  /\ now = 0
  /\ sessions = EmptyMap
  /\ messages = EmptyMap
  /\ reqs = <<IdleReq>>
  /\ ret = [op |-> "init"]
  /\ limiter = SocketLimiter
  /\ limLog = <<>>
  /\ sockets = <<>>

SpecHistory == InitHistory /\ [][NextHistory]_vars

NotFound == "Sesion no encontrada"

\* C19: getSessionHistory and clearSession on a session id without a session
\* return the negative result {success: false, message: 'Sesion no
\* encontrada'}, the history with an empty list of messages, and leave the
\* sessions and the messages of the store as they are.
C19_UnknownSession ==
  [][(/\ ret'.op \in {"getSessionHistory", "clearSession"}
      /\ ret'.sessionId \notin DOMAIN sessions)
     => /\ ret'.result.success = FALSE
        /\ ret'.result.message = NotFound
        /\ ret'.op = "getSessionHistory" =>
             /\ ret'.result.messages = <<>>
             /\ DOMAIN ret'.result = {"success", "message", "messages"}
        /\ ret'.op = "clearSession" =>
             DOMAIN ret'.result = {"success", "message"}
        /\ sessions' = sessions
        /\ messages' = messages]_vars

\* the history of an unknown session was asked for while another session
\* holds messages
C19_Witness ==
  /\ ret.op = "getSessionHistory"
  /\ ret.sessionId \notin DOMAIN sessions
  /\ ret.result.success = FALSE
  /\ \E s \in DOMAIN sessions : sessions[s].messages # <<>>

\* the number the query asks for: 50 when the limit is omitted
AskedLimit(query) ==
  IF query = JsUndefined THEN Num(10 * DefaultHistoryLimit)
  ELSE ParseIntString(query.chars)

LimitAccepted(query) ==
  /\ ~AskedLimit(query).nan
  /\ AskedLimit(query).tenths >= 10 * 1
  /\ AskedLimit(query).tenths <= 10 * 100

\* C20: GET /chat/history/:sessionId accepts a limit N only when
\* 1 <= N <= 100 (50 when omitted) and otherwise answers 400 without calling
\* the service; for an accepted N and a session with k messages the body
\* holds the last min(N, k) messages in the order of the conversation, each
\* with id, role, content and timestamp only, and totalMessages is their
\* number.
C20_HistoryLimit ==
  (ret.op = "GET /chat/history" /\ validateSessionId(ret.sessionId).isValid)
  =>
    /\ ~LimitAccepted(ret.limit) => ret.status = 400 /\ ~ret.read
    /\ LimitAccepted(ret.limit) => ret.status = 200 /\ ret.read
    /\ (LimitAccepted(ret.limit) /\ ret.sessionId \in DOMAIN sessions) =>
         LET all == sessions[ret.sessionId].messages
             k == Len(all)
             n == Min(AskedLimit(ret.limit).tenths \div 10, k)
             got == ret.body.messages
         IN  /\ ret.body.success
             /\ Len(got) = n
             /\ ret.body.totalMessages = n
             /\ \A i \in 1..n :
                  /\ DOMAIN got[i] = {"id", "role", "content", "timestamp"}
                  /\ got[i].id = all[k - n + i].id
                  /\ got[i].role = all[k - n + i].role
                  /\ got[i].content = all[k - n + i].content
                  /\ got[i].timestamp = all[k - n + i].timestamp

\* a history of two messages was asked for with limit 1 and the last
\* message came back
C20_Witness ==
  /\ ret.op = "GET /chat/history"
  /\ ret.status = 200
  /\ ret.limit = JsStr(<<"1">>)
  /\ ret.sessionId \in DOMAIN sessions
  /\ Len(sessions[ret.sessionId].messages) >= 2
  /\ Len(ret.body.messages) = 1

----------------------------------------------------------------------------
(* Claims about the ids and the owners of stored messages                  *)

\* C21: message ids are unique: after any sequence of createMessage calls,
\* also within one millisecond, no two stored messages have the same id, so
\* the message map has an entry of its own for every message of a session.
C21_UniqueIds ==
  \A s \in DOMAIN sessions :
    LET list == sessions[s].messages
    IN  /\ \A i, j \in 1..Len(list) : i # j => list[i].id # list[j].id
        /\ Cardinality({id \in DOMAIN messages : messages[id].sessionId = s})
             >= Len(list)

\* C23: createMessage does not create a session: called with the id of no
\* session it leaves the session map as it is, getSession for the id stays
\* absent and getSessionMessages stays empty; only createOrUpdateSession
\* adds a session.
C23_NoImplicitSession ==
  [][/\ (ret'.op = "createMessage" /\ ret'.sessionId \notin DOMAIN sessions)
        => /\ sessions' = sessions
           /\ getSession(sessions', ret'.sessionId) = JsNull
           /\ getSessionMessages(sessions', ret'.sessionId, JsNull) = <<>>
     /\ (DOMAIN sessions' \ DOMAIN sessions # {})
        => ret'.op = "createOrUpdateSession"]_vars

\* a message was created for the id of no session: it is in the message
\* map and in no session
C23_Witness ==
  /\ ret.op = "createMessage"
  /\ ret.sessionId \notin DOMAIN sessions
  /\ ret.message.id \in DOMAIN messages

\* C22: the content of every user message stored through the REST or the
\* socket adapter is sanitized text of bounded length: it is never longer
\* than the configured maximum message length.
C22_ContentBounded ==
  \A id \in DOMAIN messages :
    messages[id].role = "user" => Len(messages[id].content) <= maxLength

----------------------------------------------------------------------------
(* Claims about requests that overlap with other operations                *)

\* C24: whenever processMessage returns {success: true, messageId} for a
\* session, the assistant message with that id is in the stored history of
\* that session at the return, also when clearSession ran for the session
\* while the LLM call was in flight.
C24_ReplyStored ==
  \A r \in Reqs :
    (JustReturned(r) /\ reqs[r].result.success = TRUE)
    => /\ reqs[r].sessionId \in DOMAIN sessions
       /\ \E i \in 1..Len(sessions[reqs[r].sessionId].messages) :
            LET m == sessions[reqs[r].sessionId].messages[i]
            IN  m.id = reqs[r].result.messageId /\ m.role = "assistant"

\* C25: under any interleaving of requests the last entry of the context
\* that processMessage sends to the LLM is the user message of that same
\* request: when the invocation reaches its LLM call, its user message is
\* the last stored message of the session and the last entry of the context.
C25_OwnMessageLast ==
  \A r \in DOMAIN reqs :
    /\ JustSuspended(r) =>
         LET stored == sessions[reqs[r].sessionId].messages
         IN  /\ stored # <<>>
             /\ stored[Len(stored)] = reqs[r].userMsg
             /\ reqs[r].userMsg.content = reqs[r].userMessage
    /\ reqs[r].userAt > 0 =>
         /\ reqs[r].llmInput # <<>>
         /\ reqs[r].llmInput[Len(reqs[r].llmInput)]
              = [role |-> "user", content |-> reqs[r].userMsg.content]

\* the second of two requests for one session reaches its LLM call while
\* the first is at its own
C25_Witness ==
  \E a \in DOMAIN reqs, b \in DOMAIN reqs :
    /\ a # b
    /\ JustSuspended(b)
    /\ reqs[a].pc = "awaiting"
    /\ reqs[a].sessionId = reqs[b].sessionId
    /\ Len(reqs[b].llmInput) = 3

\* the session that the step just taken worked on
Target ==
  IF ret'.op = "processMessage" THEN reqs'[ret'.req].sessionId
  ELSE ret'.sessionId

\* C26: sessions are isolated: processMessage, getSessionHistory and
\* clearSession on session A never add, remove or reorder a message of
\* another session B, in its history or in the message map, never change
\* the createdAt or lastActivity of B, and a message stored for A carries
\* the session id A.
C26_Isolated ==
  [][ret'.op \in {"processMessage", "getSessionHistory", "clearSession"}
     => /\ \A B \in DOMAIN sessions \ {Target} :
             /\ B \in DOMAIN sessions'
             /\ sessions'[B] = sessions[B]
        /\ \A B \in DOMAIN sessions' \ {Target} : B \in DOMAIN sessions
        /\ \A id \in DOMAIN messages :
             messages[id].sessionId # Target
             => id \in DOMAIN messages' /\ messages'[id] = messages[id]
        /\ \A id \in DOMAIN messages' :
             (id \notin DOMAIN messages \/ messages'[id] # messages[id])
             => messages'[id].sessionId = Target]_vars

----------------------------------------------------------------------------
(* Claims about the text that validateMessage lets through                 *)

\* C28: whenever validateMessage returns isValid true, its sanitizedMessage
\* is non-blank: non-empty, without white space at its start or its end, and
\* without a control character.
C28_SanitizedNonBlank ==
  (ret.op = "validateMessage" /\ ret.validation.isValid)
  => LET text == ret.validation.sanitizedMessage
     IN  /\ text # <<>>
         /\ text[1] \notin WhiteSpace
         /\ text[Len(text)] \notin WhiteSpace
         /\ \A i \in 1..Len(text) : text[i] \notin ControlChars

----------------------------------------------------------------------------
(* Claims about the state of the limiters                                  *)

C29_CountersBounded ==
  \A k \in DOMAIN limiter.entries :
    /\ limiter.entries[k].count >= 1
    /\ limiter.entries[k].count <= limiter.max

C29_OtherKeysKept ==
  [][ret'.op \in {"sessionLimiter", "socketLimiter"}
     => /\ \A k \in DOMAIN limiter.entries \ {ret'.key} :
             /\ k \in DOMAIN limiter'.entries
             /\ limiter'.entries[k] = limiter.entries[k]
        /\ DOMAIN limiter'.entries \subseteq DOMAIN limiter.entries
                                               \cup {ret'.key}
        /\ ~ret'.verdict.next => limiter'.entries = limiter.entries]_vars

\* C29: in the fixed-window limiters the state of a key is independent and
\* bounded: a request for one key never changes the counter or the window
\* of another key, a rejected request changes no counter, and with max >= 1
\* the stored counter of every key stays within 1..max.
C29_KeysIndependent == []C29_CountersBounded /\ C29_OtherKeysKept

\* a request is rejected while the limiter holds a second key
C29_Witness ==
  /\ ret.op = "sessionLimiter"
  /\ ~ret.verdict.next
  /\ ret.key \in DOMAIN limiter.entries
  /\ limiter.entries[ret.key].count = limiter.max
  /\ \E k \in DOMAIN limiter.entries : k # ret.key

----------------------------------------------------------------------------
(* Claims about the history over the socket                                *)

\* C30: a get-history event with a valid session id and a supplied limit L
\* gets a history-response with at most L messages, and at most 100, the
\* bound of the REST endpoint; a limit of 0 or a negative limit never yields
\* the whole history.
C30_SocketHistoryBounded ==
  (/\ ret.op = "get-history"
   /\ ret.emit = "history-response"
   /\ ret.limit # JsUndefined)
  => /\ Len(ret.data.messages) <= Max(ret.limit.value, 0)
     /\ Len(ret.data.messages) <= 100

----------------------------------------------------------------------------
(* The operations that read or clear: sessions, rooms, health and stats    *)

\* a join-session handler that opens the session it joins
SocketJoinSession_createsSession ==
  \E i \in DOMAIN sockets, sessionId \in RawSessionIds :
    LET sessionValidation == validateSessionId(sessionId)
        joined == sessionValidation.sanitizedSessionId
    IN  /\ sockets[i].connected
        /\ sockets[i].events <= SocketMax
        /\ sessionValidation.isValid
        /\ sockets' = [Handled(i) EXCEPT ![i].sessionId = joined,
                                         ![i].rooms = @ \cup {joined}]
        /\ sessions' = createOrUpdateSession(sessions, joined, EmptyContext,
                                             now).sessions
        /\ ret' = [op |-> "join-session", socket |-> sockets[i].id,
                   sessionId |-> sessionId, emit |-> "session-joined",
                   data |-> [sessionId |-> joined,
                             message |-> "Conectado a la sesion"]]
        /\ UNCHANGED <<now, messages, reqs, limiter, limLog>>

\* ChatSocket.handleJoinSession: the join-session event
SocketJoinSession ==
  \E i \in DOMAIN sockets, sessionId \in RawSessionIds :
    LET sessionValidation == validateSessionId(sessionId)
        joined == sessionValidation.sanitizedSessionId
        answer ==
          IF Falsy(sessionId)
          THEN [emit |-> "error",
                data |-> [type |-> "validation",
                          message |-> "SessionId es requerido"]]
          ELSE IF ~sessionValidation.isValid
          THEN [emit |-> "error",
                data |-> [type |-> "validation",
                          message |-> "SessionId invalido",
                          details |-> sessionValidation.errors]]
          ELSE [emit |-> "session-joined",
                data |-> [sessionId |-> joined,
                          message |-> "Conectado a la sesion"]]
    IN  /\ sockets[i].connected
        /\ sockets[i].events <= SocketMax
        /\ sockets' = IF answer.emit = "session-joined"
                      THEN [Handled(i) EXCEPT ![i].sessionId = joined,
                                              ![i].rooms = @ \cup {joined}]
                      ELSE Handled(i)
        /\ ret' = [op |-> "join-session", socket |-> sockets[i].id,
                   sessionId |-> sessionId, emit |-> answer.emit,
                   data |-> answer.data]
        /\ UNCHANGED <<now, sessions, messages, reqs, limiter, limLog>>

\* ChatSocket.handleLeaveSession: the leave-session event
SocketLeaveSession ==
  \E i \in DOMAIN sockets, sessionId \in RawSessionIds :
    LET given == IF Falsy(sessionId) THEN {} ELSE {sessionId}
        own == IF Falsy(sockets[i].sessionId) THEN {}
               ELSE {sockets[i].sessionId}
    IN  /\ sockets[i].connected
        /\ sockets[i].events <= SocketMax
        /\ sockets' = [Handled(i) EXCEPT
                         ![i].rooms = (@ \ given) \ own,
                         ![i].sessionId = IF own = {} THEN @ ELSE Null]
        /\ ret' = [op |-> "leave-session", socket |-> sockets[i].id,
                   sessionId |-> sessionId, emit |-> "session-left",
                   data |-> [message |-> "Desconectado de la sesion"]]
        /\ UNCHANGED <<now, sessions, messages, reqs, limiter, limLog>>

\* ChatSocket.handleClearSession: the clear-session event
SocketClearSession ==
  \E i \in DOMAIN sockets, sessionId \in RawSessionIds :
    LET sessionValidation == validateSessionId(sessionId)
        c == clearSession(sessions, messages,
                          sessionValidation.sanitizedSessionId)
    IN  /\ sockets[i].connected
        /\ sockets[i].events <= SocketMax
        /\ sockets' = Handled(i)
        /\ IF ~sessionValidation.isValid
           THEN /\ ret' = [op |-> "clear-session", socket |-> sockets[i].id,
                           sessionId |-> sessionId, emit |-> "error",
                           data |-> [type |-> "validation",
                                     message |-> "SessionId invalido",
                                     details |-> sessionValidation.errors]]
                /\ UNCHANGED <<sessions, messages, reqs>>
           ELSE /\ sessions' = c.sessions
                /\ messages' = c.messages
                /\ reqs' = Disturb(reqs, sessionValidation.sanitizedSessionId,
                                   0)
                /\ ret' = [op |-> "clear-session", socket |-> sockets[i].id,
                           sessionId |-> sessionId,
                           emit |-> "session-cleared", data |-> c.result]
        /\ UNCHANGED <<now, limiter, limLog>>

\* ChatController.clearSession: DELETE /chat/session/:sessionId
RestClearSession ==
  \E sessionId \in RawSessionIds \ {Undefined} :
    LET sessionValidation == validateSessionId(sessionId)
        c == clearSession(sessions, messages,
                          sessionValidation.sanitizedSessionId)
    IN  /\ IF ~sessionValidation.isValid
           THEN /\ ret' = [op |-> "DELETE /chat/session",
                           sessionId |-> sessionId, status |-> 400,
                           body |-> [success |-> FALSE,
                                     error |-> "SessionId invalido",
                                     details |-> sessionValidation.errors]]
                /\ UNCHANGED <<sessions, messages, reqs>>
           ELSE /\ sessions' = c.sessions
                /\ messages' = c.messages
                /\ reqs' = Disturb(reqs, sessionValidation.sanitizedSessionId,
                                   0)
                /\ ret' = [op |-> "DELETE /chat/session",
                           sessionId |-> sessionId, status |-> 200,
                           body |-> c.result]
        /\ UNCHANGED <<now, limiter, limLog, sockets>>

\* ChatService.getStats without the fields of the process and of the
\* configuration; the LLM client is configured
ServiceStats == getStats(sessions, messages) @@ [openaiAvailable |-> TRUE]

\* ChatController.getStats: GET /stats
RestStats ==
  /\ ret' = [op |-> "GET /stats", status |-> 200,
             body |-> [success |-> TRUE, stats |-> ServiceStats]]
  /\ UNCHANGED <<now, sessions, messages, reqs, limiter, limLog, sockets>>

\* ChatController.healthCheck: GET /health
RestHealth ==
  /\ ret' = [op |-> "GET /health", status |-> 200,
             body |-> [status |-> "healthy", timestamp |-> now,
                       openai |-> IF ServiceStats.openaiAvailable
                                  THEN "connected" ELSE "disconnected",
                       sessions |-> ServiceStats.totalSessions,
                       messages |-> ServiceStats.totalMessages]]
  /\ UNCHANGED <<now, sessions, messages, reqs, limiter, limLog, sockets>>

\* the number of events the connected client still sends
MaxFrameEvents == 2

\* a server with one session of two messages and one connected client, of
\* which all events but the last MaxFrameEvents have been handled
InitFrame ==
  /\ now = 0
  /\ sessions = MapSet(EmptyMap, S1,
                  [sessionId |-> S1, createdAt |-> 0, lastActivity |-> 0,
                   messages |-> History(S1, 2), context |-> EmptyContext])
  /\ messages = [id \in {generateId(0, i) : i \in 1..2} |->
                   History(S1, 2)[id[2]]]
  /\ reqs = <<IdleReq>>
  /\ ret = [op |-> "init"]
  /\ limiter = SocketLimiter
  /\ limLog = <<>>
  /\ sockets = <<[id |-> SocketId(1), connected |-> TRUE, connectedAt |-> 0,
                  events |-> SocketMax + 1 - MaxFrameEvents,
                  sessionId |-> Undefined, rooms |-> {}]>>

NextFrame ==
  \/ RestGetHistory
  \/ RestClearSession
  \/ RestStats
  \/ RestHealth
  \/ SocketPing
  \/ SocketGetHistory
  \/ SocketJoinSession
  \/ SocketLeaveSession
  \/ SocketClearSession

SpecFrame == InitFrame /\ [][NextFrame]_vars

\* the operations that are no chat submission
ReadOrClear ==
  {"get-history", "GET /chat/history", "clear-session",
   "DELETE /chat/session", "join-session", "leave-session", "ping",
   "GET /health", "GET /stats"}

\* C27: a session is created only by a chat submission: get-history and GET
\* history, clear-session and DELETE session, join-session, leave-session,
\* ping, health and stats never add a session or a message to the store,
\* whatever session id they are given.
C27_OnlyChatCreates ==
  [][ret'.op \in ReadOrClear
     => /\ DOMAIN sessions' \subseteq DOMAIN sessions
        /\ DOMAIN messages' \subseteq DOMAIN messages
        /\ \A s \in DOMAIN sessions' : sessions'[s] = sessions[s]]_vars

\* a client joined a session id that has no session, and none was created
C27_Witness ==
  /\ ret.op = "join-session"
  /\ ret.emit = "session-joined"
  /\ ret.data.sessionId \notin DOMAIN sessions
  /\ ret.data.sessionId \in sockets[1].rooms

====
